---------------------------- MODULE Spec2Model ----------------------------
(***************************************************************************)
(* PyRat: the turn engine of Game.start (src/pyrat/src/Game.py), the       *)
(* worker and waiter processes, the resolution of a turn                   *)
(* (__determine_new_game_state) and GameState.game_over.                   *)
(*                                                                         *)
(* Scores are kept as integers in units of 1/ScoreUnit, so that the shares *)
(* 1.0 / len(players_on_cheese) of the code are exact.                     *)
(***************************************************************************)
EXTENDS Integers, Sequences, FiniteSets, TLC

(***************************************************************************)
(* Bounds of the model                                                     *)
(***************************************************************************)
\* resolutions of a match that the model follows
MaxTurn == 3
\* largest team score (in whole cheese) drawn for the game_over inputs
MaxTeamScore == 10
\* largest number of remaining cheese drawn for the game_over inputs
MaxCheeseLeft == 2

(***************************************************************************)
(* The maze: a MazeFromDict on a 3 x 2 grid, cell 5 does not exist.        *)
(*                                                                         *)
(*      0 --1-- 1 --1-- 2                                                  *)
(*      |       |                                                          *)
(*      3       2                                                          *)
(*      |       |                                                          *)
(*      3  ###  4      (5)                                                 *)
(*                                                                         *)
(* 0-3 is mud of weight 3, 1-4 mud of weight 2, 3-4 is a wall.             *)
(***************************************************************************)
width == 3
height == 2
vertices == <<0, 1, 2, 3, 4>>

Edge(u, v, w) == [a |-> u, b |-> v, weight |-> w]

edges == {Edge(0, 1, 1), Edge(1, 2, 1), Edge(0, 3, 3), Edge(1, 4, 2)}

SeqToSet(s) == {s[i] : i \in 1..Len(s)}

\* Maze.i_to_rc: row = index // width, col = index % width
i_to_rc(index) == [row |-> index \div width, col |-> index % width]

\* Maze.rc_to_i
rc_to_i(row, col) == row * width + col

\* Maze.i_exists
i_exists(index) == index \in SeqToSet(vertices)

\* Graph.get_neighbors (edges are added symmetric by Maze.add_edge)
get_neighbors(v) ==
    {e.b : e \in {x \in edges : x.a = v}} \cup {e.a : e \in {x \in edges : x.b = v}}

\* Graph.has_edge
has_edge(u, v) == v \in get_neighbors(u)

\* Graph.get_weight (asserted to be called on an existing edge only)
get_weight(u, v) ==
    (CHOOSE e \in edges : (e.a = u /\ e.b = v) \/ (e.a = v /\ e.b = u)).weight

(***************************************************************************)
(* Actions, players, teams                                                 *)
(***************************************************************************)
NOTHING == "nothing"
NORTH == "north"
SOUTH == "south"
EAST == "east"
WEST == "west"

\* the values of the Action enumeration (all_action_names of Game.start)
all_action_names == {NOTHING, NORTH, SOUTH, EAST, WEST}

\* self.__players, in the order of the add_player calls
Players == <<"a", "b">>

PlayerSet == SeqToSet(Players)

\* game_state.teams: add_player(a, "ta", 0), add_player(b, "tb", 1)
teams == [ta |-> <<"a">>, tb |-> <<"b">>]

TeamNames == DOMAIN teams

\* one whole cheese, in score units: the 1.0 of 1.0 / len(players_on_cheese)
ScoreUnit == 6

\* GameState.__init__ of src/pyrat leaves turn at None
NoTurn == -1

\* muds[player]["target"] is None
NoTarget == -1

NoMud == [target |-> NoTarget, count |-> 0]

(***************************************************************************)
(* GameState                                                               *)
(***************************************************************************)
\* GameState.is_in_mud
is_in_mud(gs, name) == gs.muds[name].target # NoTarget

RECURSIVE SumScores(_, _, _)
SumScores(score, members, i) ==
    IF i > Len(members) THEN 0 ELSE score[members[i]] + SumScores(score, members, i + 1)

\* GameState.get_score_per_team (round(., 5) keeps multiples of 1/ScoreUnit apart)
get_score_per_team(gs) ==
    [team \in TeamNames |-> SumScores(gs.score_per_player, teams[team], 1)]

\* a variant of game_over_of: the cheese left is added to a score in score units
game_over_of_CheeseUnscaled(score_per_team, nb_cheese) ==
    IF nb_cheese = 0 THEN TRUE
    ELSE IF Cardinality(DOMAIN score_per_team) > 1
         THEN ~ \E team1, team2 \in DOMAIN score_per_team :
                    /\ team1 # team2
                    /\ \/ score_per_team[team1] = score_per_team[team2]
                       \/ /\ score_per_team[team1] < score_per_team[team2]
                          /\ score_per_team[team1] + nb_cheese >= score_per_team[team2]
         ELSE FALSE

\* a variant of game_over_of: two teams with the same score do not keep the game going
game_over_of_TieEnds(score_per_team, nb_cheese) ==
    IF nb_cheese = 0 THEN TRUE
    ELSE IF Cardinality(DOMAIN score_per_team) > 1
         THEN ~ \E team1, team2 \in DOMAIN score_per_team :
                    /\ team1 # team2
                    /\ score_per_team[team1] < score_per_team[team2]
                    /\ score_per_team[team1] + nb_cheese * ScoreUnit
                          >= score_per_team[team2]
         ELSE FALSE

\* a variant of game_over_of: the ranking test is made for a single team too
game_over_of_OneTeamRanked(score_per_team, nb_cheese) ==
    IF nb_cheese = 0 THEN TRUE
    ELSE IF Cardinality(DOMAIN score_per_team) >= 1
         THEN ~ \E team1, team2 \in DOMAIN score_per_team :
                    /\ team1 # team2
                    /\ \/ score_per_team[team1] = score_per_team[team2]
                       \/ /\ score_per_team[team1] < score_per_team[team2]
                          /\ score_per_team[team1] + nb_cheese * ScoreUnit
                                >= score_per_team[team2]
         ELSE FALSE

\* GameState.game_over of src/pyrat, on the team scores and the number of cheese
game_over_of(score_per_team, nb_cheese) ==
    IF nb_cheese = 0 THEN TRUE
    ELSE IF Cardinality(DOMAIN score_per_team) > 1
         THEN ~ \E team1, team2 \in DOMAIN score_per_team :
                    /\ team1 # team2
                    /\ \/ score_per_team[team1] = score_per_team[team2]
                       \/ /\ score_per_team[team1] < score_per_team[team2]
                          /\ score_per_team[team1] + nb_cheese * ScoreUnit
                                >= score_per_team[team2]
         ELSE FALSE

\* GameState.game_over
game_over(gs) == game_over_of(get_score_per_team(gs), Len(gs.cheese))

(***************************************************************************)
(* Game.__determine_new_game_state                                         *)
(***************************************************************************)
\* the cell an action points to, None (NoTarget) when it leaves the grid
TargetOf(location, action) ==
    LET rc == i_to_rc(location) IN
    IF action = NORTH /\ rc.row > 0 THEN rc_to_i(rc.row - 1, rc.col)
    ELSE IF action = SOUTH /\ rc.row < height - 1 THEN rc_to_i(rc.row + 1, rc.col)
    ELSE IF action = WEST /\ rc.col > 0 THEN rc_to_i(rc.row, rc.col - 1)
    ELSE IF action = EAST /\ rc.col < width - 1 THEN rc_to_i(rc.row, rc.col + 1)
    ELSE NoTarget

\* the move is applied: the target is a cell joined to the location by an edge
CanMove(location, target) ==
    target # NoTarget /\ i_exists(target) /\ has_edge(location, target)

\* a variant of MovePlayer: the turn of the move is counted when the mud is entered
MovePlayer_TurnCounted(game_state, new, name, action) ==
    LET location == game_state.player_locations[name]
        target == TargetOf(location, action)
    IN  IF CanMove(location, target)
        THEN LET weight == get_weight(location, target) IN
             IF weight = 1
             THEN [new EXCEPT !.player_locations[name] = target]
             ELSE IF weight > 1
                  THEN [new EXCEPT !.muds[name] = [target |-> target, count |-> weight - 1]]
                  ELSE new
        ELSE new

\* one iteration of "Move all players accordingly"
MovePlayer(game_state, new, name, action) ==
    LET location == game_state.player_locations[name]
        target == TargetOf(location, action)
    IN  IF CanMove(location, target)
        THEN LET weight == get_weight(location, target) IN
             IF weight = 1
             THEN [new EXCEPT !.player_locations[name] = target]
             ELSE IF weight > 1
                  THEN [new EXCEPT !.muds[name] = [target |-> target, count |-> weight]]
                  ELSE new
        ELSE new

RECURSIVE MovePlayers(_, _, _, _, _)
MovePlayers(players, i, game_state, new, actions) ==
    IF i > Len(players) THEN new
    ELSE MovePlayers(players, i + 1, game_state,
                     MovePlayer(game_state, new, players[i], actions[players[i]]),
                     actions)

\* a variant of AdvanceMud: a player that has just entered the mud is left alone
AdvanceMud_NotOnEntry(new, name) ==
    IF is_in_mud(new, name) /\ new.muds[name].count < 2
    THEN LET count == new.muds[name].count - 1 IN
         IF count = 0
         THEN [new EXCEPT !.player_locations[name] = new.muds[name].target,
                          !.muds[name] = [target |-> NoTarget, count |-> 0]]
         ELSE [new EXCEPT !.muds[name].count = count]
    ELSE new

\* one iteration of "All players in mud advance a bit"
AdvanceMud(new, name) ==
    IF is_in_mud(new, name)
    THEN LET count == new.muds[name].count - 1 IN
         IF count = 0
         THEN [new EXCEPT !.player_locations[name] = new.muds[name].target,
                          !.muds[name] = [target |-> NoTarget, count |-> 0]]
         ELSE [new EXCEPT !.muds[name].count = count]
    ELSE new

RECURSIVE AdvanceMuds(_, _, _)
AdvanceMuds(players, i, new) ==
    IF i > Len(players) THEN new
    ELSE AdvanceMuds(players, i + 1, AdvanceMud(new, players[i]))

\* list.remove(c): the first occurrence of c leaves the list
RECURSIVE RemoveFirst(_, _)
RemoveFirst(s, c) ==
    IF s = <<>> THEN <<>>
    ELSE IF Head(s) = c THEN Tail(s) ELSE <<Head(s)>> \o RemoveFirst(Tail(s), c)

\* a variant of UpdateCheese: the cheese is scored and stays in the list
UpdateCheese_CheeseStays(players, new, c) ==
    LET players_on_cheese == {p \in SeqToSet(players) : new.player_locations[p] = c}
        n == Cardinality(players_on_cheese)
    IN  IF n > 0
        THEN [new EXCEPT
                !.score_per_player = [p \in DOMAIN new.score_per_player |->
                    IF p \in players_on_cheese
                    THEN new.score_per_player[p] + (ScoreUnit \div n)
                    ELSE new.score_per_player[p]]]
        ELSE new

\* a variant of UpdateCheese: the first player of the list found on the cheese
\* takes the whole of it
UpdateCheese_FirstTakesAll(players, new, c) ==
    LET on_cheese == {i \in 1..Len(players) : new.player_locations[players[i]] = c}
    IN  IF on_cheese # {}
        THEN LET first == players[CHOOSE i \in on_cheese : \A j \in on_cheese : i <= j]
             IN  [new EXCEPT !.score_per_player[first] = @ + ScoreUnit,
                             !.cheese = RemoveFirst(new.cheese, c)]
        ELSE new

\* a variant of UpdateCheese: the cheese is removed and nobody scores
UpdateCheese_Unscored(players, new, c) ==
    IF \E p \in SeqToSet(players) : new.player_locations[p] = c
    THEN [new EXCEPT !.cheese = RemoveFirst(new.cheese, c)]
    ELSE new

\* a variant of UpdateCheese: every player on the cheese gets the whole of it
UpdateCheese_WholeEach(players, new, c) ==
    LET players_on_cheese == {p \in SeqToSet(players) : new.player_locations[p] = c}
        n == Cardinality(players_on_cheese)
    IN  IF n > 0
        THEN [new EXCEPT
                !.score_per_player = [p \in DOMAIN new.score_per_player |->
                    IF p \in players_on_cheese
                    THEN new.score_per_player[p] + ScoreUnit
                    ELSE new.score_per_player[p]],
                !.cheese = RemoveFirst(new.cheese, c)]
        ELSE new

\* one iteration of "Update cheese and scores"
UpdateCheese(players, new, c) ==
    LET players_on_cheese == {p \in SeqToSet(players) : new.player_locations[p] = c}
        n == Cardinality(players_on_cheese)
    IN  IF n > 0
        THEN [new EXCEPT
                !.score_per_player = [p \in DOMAIN new.score_per_player |->
                    IF p \in players_on_cheese
                    THEN new.score_per_player[p] + (ScoreUnit \div n)
                    ELSE new.score_per_player[p]],
                !.cheese = RemoveFirst(new.cheese, c)]
        ELSE new

\* a variant of UpdateCheeses: only the first cheese of the list is looked at
UpdateCheeses_FirstOnly(players, cheese, k, new) ==
    IF cheese = <<>> THEN new ELSE UpdateCheese(players, new, cheese[1])

RECURSIVE UpdateCheeses(_, _, _, _)
UpdateCheeses(players, cheese, k, new) ==
    IF k > Len(cheese) THEN new
    ELSE UpdateCheeses(players, cheese, k + 1, UpdateCheese(players, new, cheese[k]))

\* self.__player_traces: name -> the last locations, kept by the resolver for the GUI
VARIABLE player_traces

\* a variant of determine_new_game_state: a player whose trace is not empty moves
\* from the last cell of its trace
determine_new_game_state_FromTraces(players, game_state, actions) ==
    LET seen == [game_state EXCEPT !.player_locations =
                    [p \in DOMAIN game_state.player_locations |->
                        IF player_traces[p] # <<>>
                        THEN player_traces[p][Len(player_traces[p])]
                        ELSE game_state.player_locations[p]]]
        new0 == [seen EXCEPT !.turn = game_state.turn + 1]
        new1 == MovePlayers(players, 1, seen, new0, actions)
        new2 == AdvanceMuds(players, 1, new1)
    IN  UpdateCheeses(players, game_state.cheese, 1, new2)

\* Game.__determine_new_game_state: the three loops on a copy of the game state
determine_new_game_state(players, game_state, actions) ==
    LET new0 == [game_state EXCEPT !.turn = game_state.turn + 1]
        new1 == MovePlayers(players, 1, game_state, new0, actions)
        new2 == AdvanceMuds(players, 1, new1)
    IN  UpdateCheeses(players, game_state.cheese, 1, new2)

\* self.__trace_length of the games of the model
trace_length == 1

\* s[-n:] : the last n items of s, all of s when n = 0
LastItems(s, n) ==
    IF n = 0 \/ Len(s) <= n THEN s ELSE SubSeq(s, Len(s) - n + 1, Len(s))

\* "Store trace for GUI": what self.__player_traces is after the call
TracesAfter(players, traces, new_game_state) ==
    [p \in DOMAIN traces |->
        IF p \in SeqToSet(players)
        THEN LastItems(Append(traces[p], new_game_state.player_locations[p]), trace_length)
        ELSE traces[p]]

(***************************************************************************)
(* Game.start, _player_process_function, _waiter_process_function          *)
(***************************************************************************)
STANDARD == "standard"
SYNCHRONOUS == "synchronous"
SEQUENTIAL == "sequential"

\* GameMode after Game.__init__ (SIMULATION has become SEQUENTIAL there)
GameModes == {STANDARD, SYNCHRONOUS, SEQUENTIAL}

\* the keys of stats["players"][name]["actions"]
TallyKeys == all_action_names \cup {"mud", "error", "miss", "wall"}

\* what a call of the agent's code may do: return an action, return something
\* that is no action, raise, or (turn only) never return
AgentReturns == all_action_names \cup {"invalid", "raise"}

VARIABLES
    game_mode,          \* self.__game_mode
    continue_on_error,  \* self.__continue_on_error
    game_state,         \* the canonical state of start()
    stats,              \* stats of start()
    players_ready,      \* the players that get an input in this round
    players_running,    \* name -> bool
    turn_actions,       \* name -> action as text, of this round
    game_phases,        \* name -> phase, of this round
    mpc,                \* where start() is
    mi,                 \* index of the player a loop of start() is at
    mjoin,              \* the player whose turn_end_synchronizer start() waits in
    wpc,                \* name -> where the player's process is
    wjob,               \* name -> what the process was asked in this round
    input_queue,        \* name -> queue of (game_state, final_stats)
    output_queue,       \* name -> queue of (action, game_phase)
    waiter_queue,       \* name -> number of items in the waiter's input queue
    spc,                \* name -> where the waiter process is
    lock,               \* turn_timeout_lock: "free" or its holder
    render_calls,       \* number of calls of rendering_engine.render
    end_calls,          \* number of calls of rendering_engine.end
    returned,           \* what start() returned: "none" yet, "stats" or "empty"
    go_score_per_team,  \* game_over taken alone: the team scores it is called on,
    go_nb_cheese,       \*   the number of cheese left,
    go_is_over,         \*   and what it returned (<<>> before the call)
    rs_state,           \* __determine_new_game_state taken alone: the state and
    rs_actions,         \*   the actions it is called on,
    rs_out,             \*   what the call returned (<<>> before the call),
    rs_out2,            \*   what a second call on the same arguments returned,
    rs_permuted,        \*   self.__players in another order, and what the call returned
    last_call,          \* name -> the last method of the player that was called, and
                        \*   the turn of the state it was called on
    round_calls,        \* sequential mode: the players called in this round, in order
    rendered,           \* the state of the last call of rendering_engine.render
    objects,            \* the GameState objects of the memory: identity -> content
    game_state_ref,     \* the object that game_state of start() refers to
    new_game_state_ref, \* the object that new_game_state of start() refers to
    player_game_state_ref, \* name -> the object the player's code works on
    cpc,                \* where the loop of start() is, seen as a user of the memory
    ci,                 \* the index of the next player called in the round
    cstep,              \* the last step on the memory: what it was, for whom, with
                        \*   which actions
    reg_players,        \* self.__players (names), add_player and reset taken alone
    reg_teams,          \* self.__initial_game_state.teams: team -> list of names
    reg_player_traces,  \* the keys of self.__player_traces
    reg_scores,         \* score_per_player of the state of the game of these players
    reg_last,           \* the last call on these players: "add", "reset", "score"
    init_args,          \* the parameters of the last call of Game.__init__ taken alone
    init_game,          \* what that call built
    dc_args,            \* fixed_cheese and nb_cheese of a game whose cheese is followed
    dc_pc,              \* that game: "new", "started", or "failed" (an assertion)
    dc_state,           \* the state of that game
    gr_graph,           \* a Graph: its __vertices and its __adjacency
    gr_before,          \* the graph before remove_vertex was called
    gr_removed,         \* the vertex remove_vertex was called with, "" if none
    gr_raised           \* remove_vertex has raised

vars == <<game_mode, continue_on_error, game_state, stats, players_ready,
          players_running, turn_actions, game_phases, mpc, mi, mjoin, wpc, wjob,
          input_queue, output_queue, waiter_queue, spc, lock, render_calls, end_calls,
          returned, go_score_per_team, go_nb_cheese, go_is_over, player_traces,
          rs_state, rs_actions, rs_out, rs_out2,
           rs_permuted, last_call, round_calls, rendered, objects, game_state_ref,
           new_game_state_ref, player_game_state_ref, cpc, ci, cstep, reg_players,
           reg_teams, reg_player_traces, reg_scores, reg_last, init_args, init_game,
           dc_args, dc_pc, dc_state, gr_graph, gr_before, gr_removed, gr_raised>>

\* the memory of the GameState objects, taken alone
memory == <<objects, game_state_ref, new_game_state_ref, player_game_state_ref, cpc,
           ci, cstep>>

\* the players and the teams of a game, taken alone
registry == <<reg_players, reg_teams, reg_player_traces, reg_scores, reg_last>>

\* a call of Game.__init__, taken alone
creation == <<init_args, init_game>>

\* a game whose cheese is followed from its distribution
distribution == <<dc_args, dc_pc, dc_state>>

\* a Graph, taken alone
graph == <<gr_graph, gr_before, gr_removed, gr_raised>>

\* what is looked at apart from start(), the resolver and the memory
aside == <<registry, creation, distribution, graph>>

\* what no step of start() and of its processes changes
config == <<game_mode, continue_on_error, go_score_per_team, go_nb_cheese, go_is_over,
           rs_state, rs_actions, rs_out, rs_out2,
           rs_permuted, memory, aside>>
mainLocals == <<players_ready, players_running, turn_actions, game_phases>>
workerVars == <<wpc, wjob, input_queue, output_queue, last_call, round_calls>>
waiterVars == <<waiter_queue, spc>>
outputs == <<render_calls, end_calls, returned, player_traces, rendered>>

\* fixed_cheese of the game
InitialCheese == <<2>>

\* the initial state of add_player for the two players, cheese added by start()
InitialGameState(turn) ==
    [ turn |-> turn,
      player_locations |-> [p \in PlayerSet |-> IF p = "a" THEN 0 ELSE 1],
      score_per_player |-> [p \in PlayerSet |-> 0],
      muds |-> [p \in PlayerSet |-> NoMud],
      cheese |-> InitialCheese ]

InitialStats ==
    [ players |-> [p \in PlayerSet |->
                     [actions |-> [k \in TallyKeys |-> 0], score |-> 0]],
      turns |-> -1 ]

\* final_stats = {} : not the end of the game
NoStats == [players |-> [p \in PlayerSet |-> [actions |-> [k \in TallyKeys |-> 0], score |-> 0]],
            turns |-> -2]

IdleJob == "idle"

\* no method of the player was called yet
NoCall == [method |-> "none", turn |-> NoTurn, over |-> FALSE]

InitGame ==
    /\ game_mode \in GameModes
    /\ continue_on_error \in BOOLEAN
    /\ game_state \in {InitialGameState(0), InitialGameState(NoTurn)}
    /\ stats = InitialStats
    /\ players_ready = PlayerSet
    /\ players_running = [p \in PlayerSet |-> TRUE]
    /\ turn_actions = [p \in PlayerSet |-> "miss"]
    /\ game_phases = [p \in PlayerSet |-> "none"]
    /\ mpc = "loop"
    /\ mi = 1
    /\ mjoin = "nobody"
    /\ wpc = [p \in PlayerSet |-> IF game_mode = SEQUENTIAL THEN "unused" ELSE "start"]
    /\ wjob = [p \in PlayerSet |-> IdleJob]
    /\ input_queue = [p \in PlayerSet |-> <<>>]
    /\ output_queue = [p \in PlayerSet |-> <<>>]
    /\ waiter_queue = [p \in PlayerSet |-> 0]
    /\ spc = [p \in PlayerSet |-> IF game_mode = STANDARD THEN "get" ELSE "unused"]
    /\ lock = "free"
    /\ render_calls = 1
    /\ end_calls = 0
    /\ returned = "none"
    /\ last_call = [p \in PlayerSet |-> NoCall]
    /\ round_calls = <<>>
    /\ rendered = game_state

\* no call of game_over taken alone
NoGameOverCall ==
    /\ go_score_per_team = get_score_per_team(InitialGameState(0))
    /\ go_nb_cheese = Len(InitialCheese)
    /\ go_is_over = <<>>

\* no call of __determine_new_game_state taken alone
NoResolverCall ==
    /\ rs_state = InitialGameState(0)
    /\ rs_actions = [p \in PlayerSet |-> NOTHING]
    /\ rs_out = <<>>
    /\ rs_out2 = <<>>
    /\ rs_permuted = <<>>

\* add_player: self.__player_traces[player.name] = []
NoTraces == [p \in PlayerSet |-> <<>>]

\* the identities of the GameState objects: game_state and new_game_state of
\* start() (two objects are enough, the one of the turn before is dropped), the
\* player_game_state made for each player, and the object that the process of a
\* player gets from its input queue
ObjectIds ==
    {<<"state", "x">>, <<"state", "y">>}
        \cup {<<"copy", p>> : p \in PlayerSet}
        \cup {<<"process", p>> : p \in PlayerSet}

\* a name that refers to nothing
NoRef == <<"no", "object">>

\* the content of an identity that is no object at the moment
Unallocated == [InitialGameState(0) EXCEPT !.turn = NoTurn - 1]

NoActions == [p \in PlayerSet |-> NOTHING]

NoStep == [kind |-> "none", player |-> "", actions |-> NoActions]

\* no player was added: the state of reset() in Game.__init__
NoRegistry ==
    /\ reg_players = <<>>
    /\ reg_teams = <<>>
    /\ reg_player_traces = {}
    /\ reg_scores = <<>>
    /\ reg_last = "none"

\* Game.__init__ was not called alone
NoCreation ==
    /\ init_args = [game_mode |-> "None", render_mode |-> "None",
                    preprocessing_time |-> <<>>, turn_time |-> <<>>]
    /\ init_game = [outcome |-> "none",
                    game |-> [preprocessing_time |-> 0, turn_time |-> 0,
                              render_mode |-> "None", game_mode |-> "None"]]

\* no game has its cheese followed
NoDistribution ==
    /\ dc_args = [fixed_cheese |-> <<>>, nb_cheese |-> 0]
    /\ dc_pc = "none"
    /\ dc_state = InitialGameState(0)

\* Graph(): the graph has no vertex, nothing was removed
NoGraph ==
    /\ gr_graph = [vertices |-> <<>>, adjacency |-> <<>>]
    /\ gr_before = [vertices |-> <<>>, adjacency |-> <<>>]
    /\ gr_removed = ""
    /\ gr_raised = FALSE

\* nothing is looked at apart
NoAside == NoRegistry /\ NoCreation /\ NoDistribution /\ NoGraph

\* the memory taken alone is not used
NoMemory ==
    /\ objects = [o \in ObjectIds |-> Unallocated]
    /\ game_state_ref = NoRef
    /\ new_game_state_ref = NoRef
    /\ player_game_state_ref = [p \in PlayerSet |-> NoRef]
    /\ cpc = "unused"
    /\ ci = 1
    /\ cstep = NoStep

Init ==
    /\ InitGame
    /\ player_traces = NoTraces
    /\ NoGameOverCall
    /\ NoResolverCall
    /\ NoMemory
    /\ NoAside

N == Len(Players)

\* any(players_running.values())
AnyRunning == \E p \in PlayerSet : players_running[p]

\* a variant of InputFor: the statistics of the start of the game are handed over
InputFor_FirstStats(gs, st) ==
    [game_state |-> gs, final_stats |-> IF game_over(gs) THEN InitialStats ELSE NoStats]

\* the input put for a ready player: (copy of the state, final_stats)
InputFor(gs, st) ==
    [game_state |-> gs, final_stats |-> IF game_over(gs) THEN st ELSE NoStats]

\* a variant of JobOf: a player in mud is asked for a decision
JobOf_AskedInMud(input, name) ==
    IF input.final_stats # NoStats THEN "postprocessing"
    ELSE IF input.game_state.turn = 0 THEN "preprocessing"
    ELSE "turn"

\* the branch _player_process_function takes on an input
JobOf(input, name) ==
    IF input.final_stats # NoStats THEN "postprocessing"
    ELSE IF is_in_mud(input.game_state, name) THEN "mud"
    ELSE IF input.game_state.turn = 0 THEN "preprocessing"
    ELSE "turn"

\* the call _player_process_function makes on an input: nothing is called for a
\* player in mud
CallOf(input, name, before) ==
    IF JobOf(input, name) = "mud" THEN before
    ELSE [ method |-> JobOf(input, name),
           turn |-> input.game_state.turn,
           over |-> game_over(input.game_state) ]

\* what the agent's code may do in a call of the given kind
ReturnsOf(job) ==
    IF job = "turn" THEN AgentReturns
    ELSE IF job = "mud" THEN {"none"}
    ELSE {"ok", "raise"}

\* a variant of OutcomeOf: a value that is no action is passed on as NOTHING
OutcomeOf_InvalidIsNothing(job, ret) ==
    IF job = "postprocessing"
    THEN [action |-> IF ret = "ok" THEN "ignore" ELSE "error", game_phase |-> "postprocessing"]
    ELSE IF job = "mud"
    THEN [action |-> "mud", game_phase |-> "turn"]
    ELSE IF job = "preprocessing"
    THEN [action |-> IF ret = "ok" THEN "ignore" ELSE "error", game_phase |-> "preprocessing"]
    ELSE [action |-> IF ret \in all_action_names THEN ret
                     ELSE IF ret = "invalid" THEN NOTHING ELSE "error",
          game_phase |-> "turn"]

\* (action, game_phase) of a call of kind job in which the agent did ret
OutcomeOf(job, ret) ==
    IF job = "postprocessing"
    THEN [action |-> IF ret = "ok" THEN "ignore" ELSE "error", game_phase |-> "postprocessing"]
    ELSE IF job = "mud"
    THEN [action |-> "mud", game_phase |-> "turn"]
    ELSE IF job = "preprocessing"
    THEN [action |-> IF ret = "ok" THEN "ignore" ELSE "error", game_phase |-> "preprocessing"]
    ELSE [action |-> IF ret \in all_action_names THEN ret ELSE "error", game_phase |-> "turn"]

(***************************************************************************)
(* start(): the top of the while loop                                      *)
(***************************************************************************)
\* the loop is over: start() goes to __end and returns stats
M_Exit ==
    /\ mpc = "loop"
    /\ ~AnyRunning
    /\ mpc' = "end"
    /\ returned' = "stats"
    /\ UNCHANGED <<config, game_state, stats, mainLocals, mi, mjoin, workerVars,
                   waiterVars, lock, render_calls, end_calls, player_traces, rendered>>

\* game_state.game_over() on a state whose turn is None: the assertion of the
\* cheese getter fails, the except clause empties stats
M_Unset ==
    /\ mpc = "loop"
    /\ AnyRunning
    /\ players_ready # {}
    /\ game_state.turn = NoTurn
    /\ mpc' = "end"
    /\ returned' = "empty"
    /\ game_phases' = [p \in PlayerSet |-> "none"]
    /\ turn_actions' = [p \in PlayerSet |-> "miss"]
    /\ UNCHANGED <<config, game_state, stats, players_ready, players_running, mi,
                   mjoin, workerVars, waiterVars, lock, render_calls, end_calls,
                   player_traces, rendered>>

\* the round may start (the model follows MaxTurn resolutions)
RoundStarts ==
    /\ mpc = "loop"
    /\ AnyRunning
    /\ players_ready = {} \/ game_state.turn # NoTurn
    /\ game_over(game_state) \/ game_state.turn < MaxTurn

\* multiprocessing: the inputs of the ready players are put, start() goes to the
\* turn_start_synchronizer
M_Dispatch ==
    /\ RoundStarts
    /\ game_mode \in {STANDARD, SYNCHRONOUS}
    /\ game_phases' = [p \in PlayerSet |-> "none"]
    /\ turn_actions' = [p \in PlayerSet |-> "miss"]
    /\ input_queue' = [p \in PlayerSet |->
                         IF p \in players_ready
                         THEN Append(input_queue[p], InputFor(game_state, stats))
                         ELSE input_queue[p]]
    /\ mpc' = "start"
    /\ UNCHANGED <<config, game_state, stats, players_ready, players_running, mi,
                   mjoin, wpc, wjob, output_queue, last_call, round_calls, waiterVars,
                   lock, outputs>>

\* a variant of CalledAt: the players are called from the last one to the first
CalledAt_Reversed(i) == Players[N + 1 - i]

\* sequential mode: the i-th player that the loop over players_ready calls
CalledAt(i) == Players[i]

\* sequential: the ready players are called one after the other
M_Sequential ==
    /\ RoundStarts
    /\ game_mode = SEQUENTIAL
    /\ game_phases' = [p \in PlayerSet |-> "none"]
    /\ turn_actions' = [p \in PlayerSet |-> "miss"]
    /\ mpc' = "call"
    /\ mi' = 1
    /\ round_calls' = <<>>
    /\ UNCHANGED <<config, game_state, stats, players_ready, players_running,
                   mjoin, wpc, wjob, input_queue, output_queue, last_call, waiterVars,
                   lock, outputs>>

\* _player_process_function(ready_player, ..., player_game_state, final_stats)
M_Call(ret) ==
    /\ mpc = "call"
    /\ mi <= N
    /\ LET name == CalledAt(mi)
           job == JobOf(InputFor(game_state, stats), name)
       IN  IF name \in players_ready
           THEN /\ ret \in ReturnsOf(job)
                /\ turn_actions' = [turn_actions EXCEPT ![name] = OutcomeOf(job, ret).action]
                /\ game_phases' = [game_phases EXCEPT ![name] = OutcomeOf(job, ret).game_phase]
                /\ last_call' = [last_call EXCEPT
                                   ![name] = CallOf(InputFor(game_state, stats), name, @)]
                /\ round_calls' = Append(round_calls, name)
           ELSE /\ ret = "none"
                /\ UNCHANGED <<turn_actions, game_phases, last_call, round_calls>>
    /\ mi' = mi + 1
    /\ mpc' = IF mi = N THEN "post" ELSE "call"
    /\ UNCHANGED <<config, game_state, stats, players_ready, players_running,
                   mjoin, wpc, wjob, input_queue, output_queue, waiterVars, lock,
                   outputs>>

\* sequential: player.turn never returns, and start() with it
M_CallHangs ==
    /\ mpc = "call"
    /\ mi <= N
    /\ CalledAt(mi) \in players_ready
    /\ JobOf(InputFor(game_state, stats), CalledAt(mi)) = "turn"
    /\ mpc' = "hung"
    /\ last_call' = [last_call EXCEPT
                       ![CalledAt(mi)] = CallOf(InputFor(game_state, stats), CalledAt(mi), @)]
    /\ round_calls' = Append(round_calls, CalledAt(mi))
    /\ UNCHANGED <<config, game_state, stats, mainLocals, mi, mjoin, wpc, wjob,
                   input_queue, output_queue, waiterVars, lock, outputs>>

(***************************************************************************)
(* start(): the rendezvous and the collection of the answers               *)
(***************************************************************************)
\* turn_start_synchronizer, a Barrier(len(players) + 1): start() passes it with
\* len(players) of the processes that wait in it
M_Start ==
    /\ mpc = "start"
    /\ \E RW \in SUBSET {p \in PlayerSet : wpc[p] = "start"} :
       \E RS \in SUBSET {p \in PlayerSet : spc[p] = "start"} :
          /\ Cardinality(RW) + Cardinality(RS) = N
          /\ wpc' = [p \in PlayerSet |-> IF p \in RW THEN "recv" ELSE wpc[p]]
          /\ spc' = [p \in PlayerSet |-> IF p \in RS THEN "get" ELSE spc[p]]
    /\ mpc' = IF game_mode = STANDARD THEN "mud" ELSE "sync"
    /\ mi' = 1
    /\ UNCHANGED <<config, game_state, stats, mainLocals, mjoin, wjob, input_queue,
                   output_queue, last_call, round_calls, waiter_queue, lock, outputs>>

\* the least index from i on of a player of the set awaited, N + 1 if none
RECURSIVE NextIndex(_, _)
NextIndex(i, awaited) ==
    IF i > N \/ Players[i] \in awaited THEN i ELSE NextIndex(i + 1, awaited)

\* a variant of MudAwaited: a player in mud is waited for even if it has stopped
MudAwaited_Stopped(name) == is_in_mud(game_state, name)

\* a variant of MudAwaited: start() does not wait for the players in mud
MudAwaited_Nobody(name) == FALSE

\* "Wait at least for those in mud"
MudAwaited(name) == is_in_mud(game_state, name) /\ players_running[name]

\* the players start() looks at under the lock
Pending(name) == ~is_in_mud(game_state, name) /\ players_running[name]

\* a variant of Answered: the answer is taken only if the player was given an
\* input in this round
Answered_IfReady(name) ==
    Pending(name) /\ output_queue[name] # <<>> /\ name \in players_ready

\* a variant of Answered: start() waits for every pending player
Answered_Always(name) == Pending(name)

\* under the lock: the player's answer is taken iff its output queue is not empty
Answered(name) == Pending(name) /\ output_queue[name] # <<>>

\* a variant of SyncAwaited: only the players that have answered are waited for
SyncAwaited_IfAnswered(name) == output_queue[name] # <<>>

\* synchronous mode waits for everyone
SyncAwaited(name) == TRUE

\* start() enters turn_end_synchronizer.wait() of the next player it waits for,
\* or leaves the loop over the players
Join(phase, awaited, next) ==
    /\ mpc = phase
    /\ mjoin = "nobody"
    /\ LET j == NextIndex(mi, awaited) IN
       IF j <= N
       THEN /\ mjoin' = Players[j]
            /\ mi' = j
            /\ UNCHANGED <<mpc, lock>>
       ELSE /\ mpc' = next
            /\ mi' = 1
            /\ lock' = IF phase = "sample" THEN "free" ELSE lock
            /\ UNCHANGED mjoin
    /\ UNCHANGED <<config, game_state, stats, mainLocals, workerVars, waiterVars,
                   outputs>>

M_MudJoin == Join("mud", {p \in PlayerSet : MudAwaited(p)}, "lock")

M_SampleJoin == Join("sample", {p \in PlayerSet : Answered(p)}, "post")

M_SyncJoin == Join("sync", {p \in PlayerSet : SyncAwaited(p)}, "post")

\* with turn_timeout_lock:
M_Lock ==
    /\ mpc = "lock"
    /\ lock = "free"
    /\ lock' = "main"
    /\ mpc' = "sample"
    /\ mi' = 1
    /\ UNCHANGED <<config, game_state, stats, mainLocals, mjoin, workerVars,
                   waiterVars, outputs>>

\* the turn_end_synchronizer of the player is passed by start() and the player's
\* process, then start() gets the player's output; the process goes back to the
\* turn_start_synchronizer, or ends after postprocessing
M_Collect ==
    /\ mjoin \in PlayerSet
    /\ wpc[mjoin] = "end"
    /\ output_queue[mjoin] # <<>>
    /\ LET out == Head(output_queue[mjoin]) IN
       /\ turn_actions' = [turn_actions EXCEPT ![mjoin] = out.action]
       /\ game_phases' = [game_phases EXCEPT ![mjoin] = out.game_phase]
    /\ output_queue' = [output_queue EXCEPT ![mjoin] = Tail(@)]
    /\ wpc' = [wpc EXCEPT ![mjoin] = IF wjob[mjoin] = "postprocessing" THEN "exit" ELSE "start"]
    /\ wjob' = [wjob EXCEPT ![mjoin] = IdleJob]
    /\ mjoin' = "nobody"
    /\ mi' = mi + 1
    /\ UNCHANGED <<config, game_state, stats, players_ready, players_running, mpc,
                   input_queue, last_call, round_calls, waiterVars, lock, outputs>>

(***************************************************************************)
(* start(): the end of the round                                           *)
(***************************************************************************)
\* a variant of Benched: a player that got no input stays without input
Benched_Forever(name) ==
    /\ game_mode = STANDARD
    /\ \/ game_phases[name] = "postprocessing"
       \/ turn_actions[name] = "miss"
       \/ name \notin players_ready

\* a variant of Benched: a player that is through postprocessing is not replaced
Benched_MissOnly(name) ==
    /\ game_mode = STANDARD
    /\ turn_actions[name] = "miss"

\* a variant of Benched: a player in mud is replaced by its waiter too
Benched_InMudToo(name) ==
    /\ game_mode = STANDARD
    /\ \/ game_phases[name] = "postprocessing"
       \/ turn_actions[name] \in {"miss", "mud"}

\* standard mode: the player gets no input in the next round and its waiter
\* process goes to the turn_start_synchronizer in its place
Benched(name) ==
    /\ game_mode = STANDARD
    /\ game_phases[name] = "postprocessing" \/ turn_actions[name] = "miss"

\* a variant of PlayerCrashed: only a crash in turn() stops the game
PlayerCrashed_InTurn ==
    /\ \E p \in PlayerSet : turn_actions[p] = "error" /\ game_phases[p] = "turn"
    /\ ~continue_on_error

\* a variant of PlayerCrashed: continue_on_error is not looked at
PlayerCrashed_Always == \E p \in PlayerSet : turn_actions[p] = "error"

\* "Check for errors"
PlayerCrashed ==
    /\ \E p \in PlayerSet : turn_actions[p] = "error"
    /\ ~continue_on_error

corrected_actions ==
    [p \in PlayerSet |->
        IF turn_actions[p] \in all_action_names THEN turn_actions[p] ELSE NOTHING]

\* a variant of TallyOf: a player without an outcome gets no tally
TallyOf_MissUntallied(name, new_game_state) ==
    IF game_phases[name] \in {"none", "preprocessing"} THEN ""
    ELSE IF /\ turn_actions[name] \in all_action_names
            /\ turn_actions[name] # NOTHING
            /\ game_state.player_locations[name] = new_game_state.player_locations[name]
            /\ ~is_in_mud(game_state, name)
         THEN "wall"
         ELSE turn_actions[name]

\* a variant of TallyOf: the outcome of preprocessing is tallied too
TallyOf_AllPhases(name, new_game_state) ==
    IF game_phases[name] = "none" THEN "miss"
    ELSE IF /\ turn_actions[name] \in all_action_names
            /\ turn_actions[name] # NOTHING
            /\ game_state.player_locations[name] = new_game_state.player_locations[name]
            /\ ~is_in_mud(game_state, name)
         THEN "wall"
         ELSE turn_actions[name]

\* the tally of stats["players"][name]["actions"] the round increments, "" if none
TallyOf(name, new_game_state) ==
    IF game_phases[name] = "none" THEN "miss"
    ELSE IF game_phases[name] = "preprocessing" THEN ""
    ELSE IF /\ turn_actions[name] \in all_action_names
            /\ turn_actions[name] # NOTHING
            /\ game_state.player_locations[name] = new_game_state.player_locations[name]
            /\ ~is_in_mud(game_state, name)
         THEN "wall"
         ELSE turn_actions[name]

\* "Save stats"
SavedStats(new_game_state) ==
    [ players |-> [p \in PlayerSet |->
        [ actions |-> [k \in TallyKeys |->
                         IF k = TallyOf(p, new_game_state)
                         THEN stats.players[p].actions[k] + 1
                         ELSE stats.players[p].actions[k]],
          score |-> new_game_state.score_per_player[p] ]],
      turns |-> game_state.turn ]

\* stats[...]["actions"][turn_actions[name]] with a key the dictionary has not
TallyKeyError(new_game_state) ==
    \E p \in PlayerSet : TallyOf(p, new_game_state) \notin TallyKeys \cup {""}

\* a variant of RenderedState: the state the turn started from is rendered
RenderedState_Before(old_game_state, new_game_state) == old_game_state

\* self.__rendering_engine.render(self.__players, self.__maze, new_game_state)
RenderedState(old_game_state, new_game_state) == new_game_state

\* "Check which players are ready to continue", "Check for errors", "We save the
\* turn info if we are not postprocessing"
M_Post ==
    /\ mpc = "post"
    /\ players_running' = [p \in PlayerSet |->
                             players_running[p] /\ game_phases[p] # "postprocessing"]
    /\ players_ready' = {p \in PlayerSet : ~Benched(p)}
    /\ waiter_queue' = [p \in PlayerSet |->
                          IF Benched(p) THEN waiter_queue[p] + 1 ELSE waiter_queue[p]]
    /\ LET new_game_state == determine_new_game_state(Players, game_state, corrected_actions)
       IN  IF PlayerCrashed
           THEN /\ mpc' = "end"
                /\ returned' = "empty"
                /\ UNCHANGED <<game_state, stats, render_calls, player_traces, rendered>>
           ELSE IF ~game_over(game_state)
           THEN IF TallyKeyError(new_game_state)
                THEN /\ mpc' = "end"
                     /\ returned' = "empty"
                     /\ UNCHANGED <<game_state, stats, render_calls, player_traces,
                                    rendered>>
                ELSE /\ stats' = SavedStats(new_game_state)
                     /\ player_traces' = TracesAfter(Players, player_traces, new_game_state)
                     /\ render_calls' = render_calls + 1
                     /\ rendered' = RenderedState(game_state, new_game_state)
                     /\ game_state' = new_game_state
                     /\ mpc' = "loop"
                     /\ UNCHANGED returned
           ELSE /\ mpc' = "loop"
                /\ UNCHANGED <<game_state, stats, render_calls, returned, player_traces,
                               rendered>>
    /\ UNCHANGED <<config, turn_actions, game_phases, mi, mjoin, workerVars, spc,
                   lock, end_calls>>

\* self.__end(stats == {}): rendering_engine.end(), then start() returns
M_End ==
    /\ mpc = "end"
    /\ end_calls' = end_calls + 1
    /\ mpc' = "done"
    /\ UNCHANGED <<config, game_state, stats, mainLocals, mi, mjoin, workerVars,
                   waiterVars, lock, render_calls, returned, player_traces, rendered>>

(***************************************************************************)
(* _player_process_function (multiprocessing)                              *)
(***************************************************************************)
\* game_state, final_stats = input_queue.get()
W_Recv(name) ==
    /\ wpc[name] = "recv"
    /\ input_queue[name] # <<>>
    /\ wjob' = [wjob EXCEPT ![name] = JobOf(Head(input_queue[name]), name)]
    /\ input_queue' = [input_queue EXCEPT ![name] = Tail(@)]
    /\ wpc' = [wpc EXCEPT ![name] = "call"]
    /\ last_call' = [last_call EXCEPT ![name] = CallOf(Head(input_queue[name]), name, @)]
    /\ UNCHANGED <<config, game_state, stats, mainLocals, mpc, mi, mjoin,
                   output_queue, round_calls, waiterVars, lock, outputs>>

\* the worker may publish: nobody holds turn_timeout_lock
MayPublish == lock = "free"

\* the call is over (returned or raised); with turn_timeout_lock: output_queue.put;
\* then the process is in turn_end_synchronizer.wait()
W_Publish(name, ret) ==
    /\ wpc[name] = "call"
    /\ ret \in ReturnsOf(wjob[name])
    /\ MayPublish
    /\ output_queue' = [output_queue EXCEPT ![name] = Append(@, OutcomeOf(wjob[name], ret))]
    /\ wpc' = [wpc EXCEPT ![name] = "end"]
    /\ UNCHANGED <<config, game_state, stats, mainLocals, mpc, mi, mjoin, wjob,
                   input_queue, last_call, round_calls, waiterVars, lock, outputs>>

\* player.turn never returns
W_Hang(name) ==
    /\ wpc[name] = "call"
    /\ wjob[name] = "turn"
    /\ wpc' = [wpc EXCEPT ![name] = "hung"]
    /\ UNCHANGED <<config, game_state, stats, mainLocals, mpc, mi, mjoin, wjob,
                   input_queue, output_queue, last_call, round_calls, waiterVars, lock,
                   outputs>>

(***************************************************************************)
(* _waiter_process_function                                                *)
(***************************************************************************)
\* _ = input_queue.get(); then the waiter is in turn_start_synchronizer.wait()
S_Get(name) ==
    /\ spc[name] = "get"
    /\ waiter_queue[name] > 0
    /\ waiter_queue' = [waiter_queue EXCEPT ![name] = @ - 1]
    /\ spc' = [spc EXCEPT ![name] = "start"]
    /\ UNCHANGED <<config, game_state, stats, mainLocals, mpc, mi, mjoin,
                   workerVars, lock, outputs>>

MainNext ==
    \/ M_Exit
    \/ M_Unset
    \/ M_Dispatch
    \/ M_Sequential
    \/ \E ret \in AgentReturns \cup {"ok", "none"} : M_Call(ret)
    \/ M_CallHangs
    \/ M_Start
    \/ M_MudJoin
    \/ M_Lock
    \/ M_SampleJoin
    \/ M_SyncJoin
    \/ M_Collect
    \/ M_Post
    \/ M_End

WorkerNext(name) ==
    \/ W_Recv(name)
    \/ \E ret \in AgentReturns \cup {"ok", "none"} : W_Publish(name, ret)
    \/ W_Hang(name)

Next ==
    \/ MainNext
    \/ \E name \in PlayerSet : WorkerNext(name)
    \/ \E name \in PlayerSet : S_Get(name)

Spec == Init /\ [][Next]_vars

(***************************************************************************)
(* The progress of the processes: start() and the waiters run whenever     *)
(* they can; a player's process gets its input when there is one and gets  *)
(* turn_timeout_lock if it asks for it again and again (the lock is free   *)
(* for the whole time.sleep of every round).  That player.turn returns is  *)
(* not assumed.                                                            *)
(***************************************************************************)
FairSpec ==
    /\ Spec
    /\ WF_vars(MainNext)
    /\ \A name \in PlayerSet : WF_vars(S_Get(name))
    /\ \A name \in PlayerSet : WF_vars(W_Recv(name))
    /\ \A name \in PlayerSet :
          SF_vars(\E ret \in AgentReturns \cup {"ok", "none"} : W_Publish(name, ret))

(***************************************************************************)
(* GameState.game_over taken alone, on drawn team scores and cheese counts *)
(***************************************************************************)
\* the teams of the drawn matches: one, two or three teams
TeamSets == {{"t1"}, {"t1", "t2"}, {"t1", "t2", "t3"}}

\* team scores of whole cheese
TeamScores == {k * ScoreUnit : k \in 0..MaxTeamScore}

InitGameOver ==
    /\ InitGame
    /\ player_traces = NoTraces
    /\ game_mode = SEQUENTIAL
    /\ continue_on_error
    /\ game_state.turn = 0
    /\ go_score_per_team \in UNION {[T -> TeamScores] : T \in TeamSets}
    /\ go_nb_cheese \in 0..MaxCheeseLeft
    /\ go_is_over = <<>>
    /\ NoResolverCall
    /\ NoMemory
    /\ NoAside

\* is_over = game_state.game_over()
GameOverCall ==
    /\ go_is_over = <<>>
    /\ go_is_over' = <<game_over_of(go_score_per_team, go_nb_cheese)>>
    /\ UNCHANGED <<game_mode, continue_on_error, go_score_per_team, go_nb_cheese,
                   game_state, stats, mainLocals, mpc, mi, mjoin, workerVars,
                   waiterVars, lock, outputs, rs_state, rs_actions, rs_out, rs_out2,
                   rs_permuted, memory, aside>>

NextGameOver == GameOverCall

SpecGameOver == InitGameOver /\ [][NextGameOver]_vars

\* what a turn can add to the score of a team: nothing, half a cheese, a cheese
TeamGains == {0, ScoreUnit \div 2, ScoreUnit}

RECURSIVE SumOver(_, _)
SumOver(f, S) ==
    IF S = {} THEN 0
    ELSE LET x == CHOOSE y \in S : TRUE IN f[x] + SumOver(f, S \ {x})

\* game_over() is called again on a state derived from the one it was called on:
\* teams have scored more, cheese has gone, or both
GameOverLater ==
    /\ Len(go_is_over) = 1
    /\ \E gains \in [DOMAIN go_score_per_team -> TeamGains], taken \in 0..go_nb_cheese :
          /\ \A team \in DOMAIN gains :
                go_score_per_team[team] + gains[team] <= MaxTeamScore * ScoreUnit
          /\ go_score_per_team' =
                [team \in DOMAIN gains |-> go_score_per_team[team] + gains[team]]
          /\ go_nb_cheese' = go_nb_cheese - taken
          /\ go_is_over' =
                Append(go_is_over, game_over_of(go_score_per_team', go_nb_cheese'))
    /\ UNCHANGED <<game_mode, continue_on_error, game_state, stats, mainLocals, mpc, mi,
                   mjoin, workerVars, waiterVars, lock, outputs, rs_state, rs_actions,
                   rs_out, rs_out2, rs_permuted, memory, aside>>

NextGameOverLater == GameOverCall \/ GameOverLater

SpecGameOverLater == InitGameOver /\ [][NextGameOverLater]_vars

(***************************************************************************)
(* __determine_new_game_state taken alone, on drawn states of three        *)
(* players: called once, called again on the same arguments, and called    *)
(* with self.__players in another order.                                   *)
(***************************************************************************)
\* self.__players of the drawn matches, in the order of the add_player calls
ResolvePlayers == <<"a", "b", "c">>

ResolvePlayerSet == SeqToSet(ResolvePlayers)

\* the integer start locations add_player accepts: 0 <= location < height * width
AskedLocations == 0..(height * width - 1)

\* the square of math.dist(i_to_rc(u), i_to_rc(v))
SquaredDist(u, v) ==
    LET ru == i_to_rc(u)
        rv == i_to_rc(v)
    IN  (ru.row - rv.row) * (ru.row - rv.row) + (ru.col - rv.col) * (ru.col - rv.col)

\* a variant of start_location: the location is taken as asked
start_location_AsAsked(location) == location

\* add_player: the asked location if the cell exists, else the closest existing
\* cell, the first of vertices among the closest ones
start_location(location) ==
    IF i_exists(location) THEN location
    ELSE LET argmin_distance ==
                CHOOSE idx \in 1..Len(vertices) :
                    \A other \in 1..Len(vertices) :
                        \/ SquaredDist(location, vertices[idx])
                              < SquaredDist(location, vertices[other])
                        \/ /\ SquaredDist(location, vertices[idx])
                                = SquaredDist(location, vertices[other])
                           /\ idx <= other
         IN  vertices[argmin_distance]

\* the muds entries a player standing on a cell can have: none, or part of the
\* way to a neighbour through mud
MudsAt(location) ==
    {NoMud} \cup
    UNION {{[target |-> t, count |-> c] : c \in 1..(get_weight(location, t) - 1)} :
            t \in get_neighbors(location)}

AllMuds == UNION {MudsAt(v) : v \in SeqToSet(vertices)}

\* the turns a player has spent in the mud it is in
TurnsInMud(location, mud) ==
    IF mud.target = NoTarget THEN 0 ELSE get_weight(location, mud.target) - mud.count

\* the longest cheese list of the drawn states
MaxCheese == 2

\* the lists of at most n distinct cells
RECURSIVE CheeseLists(_)
CheeseLists(n) ==
    IF n = 0 THEN {<<>>}
    ELSE LET shorter == CheeseLists(n - 1) IN
         shorter \cup {Append(x[1], x[2]) : x \in
                         {y \in shorter \X SeqToSet(vertices) :
                             Len(y[1]) = n - 1 /\ y[2] \notin SeqToSet(y[1])}}

\* fixed_cheese of the drawn matches: at least one cheese, else the match is over
\* before the first turn is resolved
DrawnCheeseLists == CheeseLists(MaxCheese) \ {<<>>}

RECURSIVE MaxOf(_)
MaxOf(S) ==
    IF S = {} THEN 0
    ELSE LET x == CHOOSE y \in S : TRUE
             m == MaxOf(S \ {x})
         IN  IF x > m THEN x ELSE m

\* the start cells of add_player(a, location = asked.a), add_player(b, location =
\* asked.b), add_player(c, location = StartingLocation.SAME)
StartLocations(asked) ==
    [p \in ResolvePlayerSet |->
        IF p = "c" THEN start_location(asked["b"]) ELSE start_location(asked[p])]

\* the state of a match of ResolvePlayers in which no cheese was taken yet:
\* every player on its start cell or in the mud next to it
ResolveState(asked, muds, cheese) ==
    LET locations == StartLocations(asked) IN
    [ turn |-> MaxOf({TurnsInMud(locations[p], muds[p]) : p \in ResolvePlayerSet}),
      player_locations |-> locations,
      score_per_player |-> [p \in ResolvePlayerSet |-> 0],
      muds |-> muds,
      cheese |-> cheese ]

\* the actions start() hands to the resolver: NOTHING for a player in mud
ResolveActions(gs) ==
    {acts \in [ResolvePlayerSet -> all_action_names] :
        \A p \in ResolvePlayerSet : is_in_mud(gs, p) => acts[p] = NOTHING}

\* the orders self.__players can be in
PlayerOrders ==
    {o \in [1..Len(ResolvePlayers) -> ResolvePlayerSet] :
        \A i, j \in 1..Len(ResolvePlayers) : i # j => o[i] # o[j]}

InitResolve ==
    /\ InitGame
    /\ game_mode = SEQUENTIAL
    /\ continue_on_error
    /\ game_state.turn = 0
    /\ NoGameOverCall
    /\ NoMemory
    /\ NoAside
    /\ player_traces = [p \in ResolvePlayerSet |-> <<>>]
    /\ \E asked \in [{"a", "b"} -> AskedLocations] :
       \E muds \in [ResolvePlayerSet -> AllMuds] :
          /\ \A p \in ResolvePlayerSet : muds[p] \in MudsAt(StartLocations(asked)[p])
          /\ \E cheese \in DrawnCheeseLists :
                /\ \A p \in ResolvePlayerSet :
                        StartLocations(asked)[p] \notin SeqToSet(cheese)
                /\ rs_state = ResolveState(asked, muds, cheese)
    /\ rs_actions = [p \in ResolvePlayerSet |-> NOTHING]
    /\ rs_out = <<>>
    /\ rs_out2 = <<>>
    /\ rs_permuted = <<>>

engine == <<game_mode, continue_on_error, go_score_per_team, go_nb_cheese, go_is_over,
            game_state, stats, mainLocals, mpc, mi, mjoin, workerVars, waiterVars,
            lock, render_calls, end_calls, returned, rendered, memory, aside>>

\* new_game_state = self.__determine_new_game_state(game_state, corrected_actions)
ResolveCall ==
    /\ rs_out = <<>>
    /\ \E actions \in ResolveActions(rs_state) :
          /\ rs_actions' = actions
          /\ rs_out' = <<determine_new_game_state(ResolvePlayers, rs_state, actions)>>
          /\ player_traces' = TracesAfter(ResolvePlayers, player_traces, rs_out'[1])
    /\ UNCHANGED <<engine, rs_state, rs_out2, rs_permuted>>

\* the same call once more, on the same game state and actions
ResolveAgain ==
    /\ rs_out # <<>>
    /\ rs_out2 = <<>>
    /\ rs_out2' = <<determine_new_game_state(ResolvePlayers, rs_state, rs_actions)>>
    /\ player_traces' = TracesAfter(ResolvePlayers, player_traces, rs_out2'[1])
    /\ UNCHANGED <<engine, rs_state, rs_actions, rs_out, rs_permuted>>

\* the same call with the players added in another order
ResolvePermuted ==
    /\ rs_out2 # <<>>
    /\ rs_permuted = <<>>
    /\ \E order \in PlayerOrders :
          /\ rs_permuted' = <<order, determine_new_game_state(order, rs_state, rs_actions)>>
          /\ player_traces' = TracesAfter(order, player_traces, rs_permuted'[2])
    /\ UNCHANGED <<engine, rs_state, rs_actions, rs_out, rs_out2>>

\* one call on every drawn state and every choice of actions
NextResolve == ResolveCall

SpecResolve == InitResolve /\ [][NextResolve]_vars

\* the call, then the same call again, then the call in another order
NextResolveOrder == ResolveCall \/ ResolveAgain \/ ResolvePermuted

SpecResolveOrder == InitResolve /\ [][NextResolveOrder]_vars

(***************************************************************************)
(* The GameState objects of start(): which object each name refers to      *)
(***************************************************************************)
\* the other one of the two objects of start()
OtherState(ref) ==
    IF ref = <<"state", "x">> THEN <<"state", "y">> ELSE <<"state", "x">>

\* a variant of deepcopy: the object itself is given
deepcopy_SameObject(ref, fresh) == ref

\* copy.deepcopy(x): a new object (of identity fresh) with the content of x
deepcopy(ref, fresh) == fresh

\* the object the code of the player works on: the object given to
\* _player_process_function in sequential mode, the object its process gets from
\* the input queue otherwise
Received(mode, ref, p) == IF mode = SEQUENTIAL THEN ref ELSE <<"process", p>>

\* what the code of a player may do to the GameState it was given
Scribbles == {"none", "cheese", "location"}

Scribbled(gs, p, m) ==
    IF m = "cheese" THEN [gs EXCEPT !.cheese = <<>>]
    ELSE IF m = "location" THEN [gs EXCEPT !.player_locations[p] = 4]
    ELSE gs

InitMemory ==
    /\ InitGame
    /\ game_state = InitialGameState(0)
    /\ continue_on_error
    /\ player_traces = NoTraces
    /\ NoGameOverCall
    /\ NoResolverCall
    /\ NoAside
    /\ objects = [o \in ObjectIds |->
                    IF o = <<"state", "x">> THEN InitialGameState(0) ELSE Unallocated]
    /\ game_state_ref = <<"state", "x">>
    /\ new_game_state_ref = NoRef
    /\ player_game_state_ref = [p \in PlayerSet |-> NoRef]
    /\ cpc = "call"
    /\ ci = 1
    /\ cstep = NoStep

\* what the steps on the memory leave alone
engineAlone == <<game_mode, continue_on_error, go_score_per_team, go_nb_cheese,
                 go_is_over, game_state, stats, mainLocals, mpc, mi, mjoin, workerVars,
                 waiterVars, lock, outputs, rs_state, rs_actions, rs_out, rs_out2,
                 rs_permuted, aside>>

\* player_game_state = copy.deepcopy(game_state), then the player is given it (or
\* its process gets it from the queue) and its code does m to it
C_Call(p, m) ==
    /\ cpc = "call"
    /\ ci <= N
    /\ p = Players[ci]
    /\ objects[game_state_ref].turn < MaxTurn
    /\ LET player_game_state == deepcopy(game_state_ref, <<"copy", p>>)
           copied == [objects EXCEPT ![player_game_state] = objects[game_state_ref]]
           mine == Received(game_mode, player_game_state, p)
           received == [copied EXCEPT ![mine] = copied[player_game_state]]
       IN  /\ objects' = [received EXCEPT ![mine] = Scribbled(@, p, m)]
           /\ player_game_state_ref' = [player_game_state_ref EXCEPT ![p] = mine]
    /\ ci' = ci + 1
    /\ cpc' = IF ci = N THEN "resolve" ELSE "call"
    /\ cstep' = [kind |-> "call", player |-> p, actions |-> NoActions]
    /\ UNCHANGED <<engineAlone, game_state_ref, new_game_state_ref>>

\* new_game_state = self.__determine_new_game_state(game_state, corrected_actions),
\* which starts with new_game_state = copy.deepcopy(game_state) and writes the
\* turn into new_game_state
C_Resolve(actions) ==
    /\ cpc = "resolve"
    /\ LET new_game_state == deepcopy(game_state_ref, OtherState(game_state_ref)) IN
       /\ new_game_state_ref' = new_game_state
       /\ objects' = [objects EXCEPT ![new_game_state] =
                         determine_new_game_state(Players, objects[game_state_ref], actions)]
    /\ cpc' = "replace"
    /\ cstep' = [kind |-> "resolve", player |-> "", actions |-> actions]
    /\ UNCHANGED <<engineAlone, game_state_ref, player_game_state_ref, ci>>

\* game_state = new_game_state: the objects of the round are dropped
C_Replace ==
    /\ cpc = "replace"
    /\ game_state_ref' = new_game_state_ref
    /\ new_game_state_ref' = NoRef
    /\ player_game_state_ref' = [p \in PlayerSet |-> NoRef]
    /\ objects' = [o \in ObjectIds |->
                     IF o = new_game_state_ref THEN objects[o] ELSE Unallocated]
    /\ cpc' = "call"
    /\ ci' = 1
    /\ cstep' = [kind |-> "replace", player |-> "", actions |-> NoActions]
    /\ UNCHANGED engineAlone

NextMemory ==
    \/ \E p \in PlayerSet, m \in Scribbles : C_Call(p, m)
    \/ \E actions \in [PlayerSet -> all_action_names] : C_Resolve(actions)
    \/ C_Replace

SpecMemory == InitMemory /\ [][NextMemory]_vars

(***************************************************************************)
(* The players and the teams of a game, taken alone: add_player, reset and *)
(* the scores that the resolver gives, on names drawn from RegNames.       *)
(***************************************************************************)
\* the names of the players that may be added
RegNames == {"a", "b", "c"}

\* the teams they may be added to ("" is the default of add_player)
RegTeams == {"", "t"}

\* largest score (in score units) that a player of the registry reaches
MaxRegScore == 2

\* the index of a team in the dictionary of the teams (insertion order), 0 if absent
TeamIndex(tms, team) ==
    IF \E i \in 1..Len(tms) : tms[i][1] = team
    THEN CHOOSE i \in 1..Len(tms) : tms[i][1] = team
    ELSE 0

\* add_player: if team not in teams: teams[team] = [] ; teams[team].append(name)
TeamAppend(tms, team, name) ==
    IF TeamIndex(tms, team) = 0 THEN Append(tms, <<team, <<name>>>>)
    ELSE [tms EXCEPT ![TeamIndex(tms, team)] = <<team, Append(@[2], name)>>]

\* reset: [team for team in previous.teams if name in previous.teams[team]][0]
TeamOfPlayer(tms, name) ==
    LET found == {i \in 1..Len(tms) : name \in SeqToSet(tms[i][2])}
        first == CHOOSE i \in found : \A j \in found : i <= j
    IN  tms[first][1]

\* a variant of NameIsFree: a name may be added twice
NameIsFree_Always(name, traces) == TRUE

\* add_player: assert player.name not in self.__player_traces
NameIsFree(name, traces) == name \notin traces

\* add_player on the registry reg, its assertions passed
add_player(reg, name, team) ==
    [players |-> Append(reg.players, name),
     teams   |-> TeamAppend(reg.teams, team, name),
     traces  |-> reg.traces \cup {name},
     scores  |-> [n \in DOMAIN reg.scores \cup {name} |->
                     IF n = name THEN 0 ELSE reg.scores[n]]]

\* reset: GameState() and the traces emptied, no player yet
EmptyRegistry == [players |-> <<>>, teams |-> <<>>, traces |-> {}, scores |-> <<>>]

\* reset: the loop that pops the players and adds them as they were added
RECURSIVE ReAdd(_, _, _, _)
ReAdd(reg, popped, previous_teams, i) ==
    IF i > Len(popped) THEN reg
    ELSE ReAdd(add_player(reg, popped[i], TeamOfPlayer(previous_teams, popped[i])),
               popped, previous_teams, i + 1)

\* GameState.get_score_per_team on the teams tms and the scores score
get_score_per_team_of(tms, score) ==
    [team \in {tms[i][1] : i \in 1..Len(tms)} |->
        SumScores(score, tms[TeamIndex(tms, team)][2], 1)]

\* the registry as one record
Registry == [players |-> reg_players, teams |-> reg_teams,
             traces |-> reg_player_traces, scores |-> reg_scores]

\* the registry becomes reg
SetRegistry(reg) ==
    /\ reg_players' = reg.players
    /\ reg_teams' = reg.teams
    /\ reg_player_traces' = reg.traces
    /\ reg_scores' = reg.scores

InitTeams ==
    /\ InitGame
    /\ game_mode = SEQUENTIAL
    /\ game_state = InitialGameState(0)
    /\ continue_on_error
    /\ player_traces = NoTraces
    /\ NoGameOverCall
    /\ NoResolverCall
    /\ NoMemory
    /\ NoAside

\* what the steps taken apart leave alone
allButAside == <<game_mode, continue_on_error, go_score_per_team, go_nb_cheese,
                 go_is_over, game_state, stats, mainLocals, mpc, mi, mjoin,
                 workerVars, waiterVars, lock, outputs, rs_state, rs_actions,
                 rs_out, rs_out2, rs_permuted, memory>>

\* game.add_player(player, team): refused by the assertion if the name is taken
T_AddPlayer(name, team) ==
    /\ NameIsFree(name, reg_player_traces)
    /\ Len(reg_players) < Cardinality(RegNames)
    /\ SetRegistry(add_player(Registry, name, team))
    /\ reg_last' = "add"
    /\ UNCHANGED <<allButAside, creation, distribution, graph>>

\* game.reset(keep_players)
T_Reset(keep_players) ==
    /\ SetRegistry(IF keep_players
                   THEN ReAdd(EmptyRegistry, reg_players, reg_teams, 1)
                   ELSE EmptyRegistry)
    /\ reg_last' = IF keep_players THEN "reset_keep" ELSE "reset"
    /\ UNCHANGED <<allButAside, creation, distribution, graph>>

\* the resolver of a game of these players gives name a share of a cheese
T_Score(name, share) ==
    /\ name \in SeqToSet(reg_players)
    /\ reg_scores[name] + share <= MaxRegScore
    /\ reg_scores' = [reg_scores EXCEPT ![name] = @ + share]
    /\ reg_last' = "score"
    /\ UNCHANGED <<reg_players, reg_teams, reg_player_traces>>
    /\ UNCHANGED <<allButAside, creation, distribution, graph>>

NextTeams ==
    \/ \E name \in RegNames, team \in RegTeams : T_AddPlayer(name, team)
    \/ \E keep_players \in BOOLEAN : T_Reset(keep_players)
    \/ \E name \in RegNames, share \in 1..MaxRegScore : T_Score(name, share)

SpecTeams == InitTeams /\ [][NextTeams]_vars

(***************************************************************************)
(* Game.__init__ taken alone: the parameters it is given and the game it   *)
(* builds, or the assertion it fails. Times are in tenths of a second.     *)
(***************************************************************************)
SIMULATION == "simulation"

\* a parameter that is not supplied (None); a supplied time t is <<t>>
None == "None"
NoTime == <<>>

\* the RenderMode enumeration
GUI == "gui"
NO_RENDERING == "no_rendering"
RenderModes == {"ascii", "ansi", GUI, NO_RENDERING}

\* largest time (in tenths of a second) supplied to Game.__init__
MaxTime == 1

DEFAULT_RENDER_MODE == GUI
DEFAULT_PREPROCESSING_TIME == 30
DEFAULT_TURN_TIME == 1
DEFAULT_GAME_MODE == STANDARD

\* the parameters Game.__init__ may be given
InitArgs ==
    [game_mode : {None, STANDARD, SYNCHRONOUS, SEQUENTIAL, SIMULATION},
     render_mode : {None} \cup RenderModes,
     preprocessing_time : {NoTime} \cup {<<t>> : t \in 0..MaxTime},
     turn_time : {NoTime} \cup {<<t>> : t \in 0..MaxTime}]

\* assert game_mode is None or game_mode != SIMULATION or (game_mode == SIMULATION
\* and all([param is None for param in [render_mode, preprocessing_time, turn_time]]))
SimulationAccepted(args) ==
    \/ args.game_mode = None
    \/ args.game_mode # SIMULATION
    \/ /\ args.game_mode = SIMULATION
       /\ args.render_mode = None
       /\ args.preprocessing_time = NoTime
       /\ args.turn_time = NoTime

\* the assertions of Game.__init__ on these four parameters
InitAsserts(args) ==
    /\ ~(args.game_mode = SEQUENTIAL /\ args.render_mode = GUI)
    /\ SimulationAccepted(args)

\* a variant of Enforced: simulation mode keeps the stored times
Enforced_TimesKept(game) ==
    IF game.game_mode = SIMULATION
    THEN [game EXCEPT !.render_mode = NO_RENDERING, !.game_mode = SEQUENTIAL]
    ELSE game

\* if self.__game_mode == GameMode.SIMULATION: the parameters are enforced
Enforced(game) ==
    IF game.game_mode = SIMULATION
    THEN [preprocessing_time |-> 0, turn_time |-> 0,
          render_mode |-> NO_RENDERING, game_mode |-> SEQUENTIAL]
    ELSE game

\* the given parameters or the default values, stored
Stored(args) ==
    [preprocessing_time |-> IF args.preprocessing_time # NoTime
                            THEN args.preprocessing_time[1]
                            ELSE DEFAULT_PREPROCESSING_TIME,
     turn_time |-> IF args.turn_time # NoTime THEN args.turn_time[1]
                   ELSE DEFAULT_TURN_TIME,
     render_mode |-> IF args.render_mode # None THEN args.render_mode
                     ELSE DEFAULT_RENDER_MODE,
     game_mode |-> IF args.game_mode # None THEN args.game_mode
                   ELSE DEFAULT_GAME_MODE]

\* no game: what a failed assertion leaves
NoGame == [preprocessing_time |-> 0, turn_time |-> 0, render_mode |-> None,
           game_mode |-> None]

\* Game(**args): the game that is built, or the AssertionError
Game__init__(args) ==
    IF InitAsserts(args)
    THEN [outcome |-> "game", game |-> Enforced(Stored(args))]
    ELSE [outcome |-> "AssertionError", game |-> NoGame]

InitCreate ==
    /\ InitGame
    /\ game_mode = SEQUENTIAL
    /\ game_state = InitialGameState(0)
    /\ continue_on_error
    /\ player_traces = NoTraces
    /\ NoGameOverCall
    /\ NoResolverCall
    /\ NoMemory
    /\ NoAside

\* Game(**args) is called
K_Create(args) ==
    /\ init_args' = args
    /\ init_game' = Game__init__(args)
    /\ UNCHANGED <<allButAside, registry, distribution, graph>>

NextCreate == \E args \in InitArgs : K_Create(args)

SpecCreate == InitCreate /\ [][NextCreate]_vars

(***************************************************************************)
(* The cheese of a match: start() distributes it on the cells where no     *)
(* player starts, then the turns are resolved.                             *)
(***************************************************************************)
\* the number of turns resolved after the cheese was distributed
MaxCheeseTurn == 1

\* the lists of at most n cells of the grid, existing or not, distinct or not
RECURSIVE CellLists(_)
CellLists(n) ==
    IF n = 0 THEN {<<>>}
    ELSE LET shorter == CellLists(n - 1) IN
         shorter \cup {Append(l, c) : l \in {s \in shorter : Len(s) = n - 1},
                                      c \in AskedLocations}

\* the fixed_cheese and nb_cheese a game can be made with: one of them is given
CheeseArgs ==
    {[fixed_cheese |-> <<l>>, nb_cheese |-> 0] : l \in CellLists(MaxCheese)}
    \cup {[fixed_cheese |-> <<>>, nb_cheese |-> n] : n \in 0..MaxCheese}

\* a variant of AvailableCells: every cell of the maze is available
AvailableCells_All(player_locations) == SeqToSet(vertices)

\* [i for i in self.__maze.vertices if i not in player_locations.values()]
AvailableCells(player_locations) ==
    {i \in SeqToSet(vertices) :
        \A p \in DOMAIN player_locations : player_locations[p] # i}

\* the assertions of __distribute_cheese
DistributeAsserts(args, available_cells) ==
    IF args.fixed_cheese # <<>>
    THEN LET fixed_cheese == args.fixed_cheese[1] IN
         /\ Cardinality(SeqToSet(fixed_cheese)) = Len(fixed_cheese)
         /\ Cardinality(available_cells) >= Len(fixed_cheese)
         /\ \A k \in 1..Len(fixed_cheese) : i_exists(fixed_cheese[k])
         /\ \A k \in 1..Len(fixed_cheese) : fixed_cheese[k] \in available_cells
    ELSE /\ args.nb_cheese > 0
         /\ Cardinality(available_cells) >= args.nb_cheese

\* the lists __distribute_cheese can return: the fixed list, or the first
\* nb_cheese cells of a shuffle of the available cells
distribute_cheese(args, available_cells) ==
    IF args.fixed_cheese # <<>> THEN {args.fixed_cheese[1]}
    ELSE {l \in CheeseLists(args.nb_cheese) :
            Len(l) = args.nb_cheese /\ SeqToSet(l) \subseteq available_cells}

\* self.__initial_game_state after the three add_player calls: no cheese yet
InitialStateOf(asked) == ResolveState(asked, [p \in ResolvePlayerSet |-> NoMud], <<>>)

InitCheese ==
    /\ InitGame
    /\ game_mode = SEQUENTIAL
    /\ game_state = InitialGameState(0)
    /\ continue_on_error
    /\ player_traces = NoTraces
    /\ NoGameOverCall
    /\ NoResolverCall
    /\ NoMemory
    /\ NoRegistry
    /\ NoCreation
    /\ NoGraph
    /\ dc_pc = "new"
    /\ dc_args \in CheeseArgs
    /\ \E asked \in [{"a", "b"} -> AskedLocations] : dc_state = InitialStateOf(asked)

\* start(): "Add cheese"; a failed assertion ends start() with no turn
D_Start ==
    /\ dc_pc = "new"
    /\ LET available_cells == AvailableCells(dc_state.player_locations) IN
       IF DistributeAsserts(dc_args, available_cells)
       THEN /\ \E cheese \in distribute_cheese(dc_args, available_cells) :
                  dc_state' = [dc_state EXCEPT !.cheese = cheese]
            /\ dc_pc' = "started"
       ELSE /\ dc_pc' = "failed"
            /\ UNCHANGED dc_state
    /\ UNCHANGED <<dc_args, allButAside, registry, creation, graph>>

\* one turn is resolved
D_Turn ==
    /\ dc_pc = "started"
    /\ dc_state.turn < MaxCheeseTurn
    /\ \E actions \in ResolveActions(dc_state) :
          dc_state' = determine_new_game_state(ResolvePlayers, dc_state, actions)
    /\ UNCHANGED <<dc_pc, dc_args, allButAside, registry, creation, graph>>

NextCheese == D_Start \/ D_Turn

SpecCheese == InitCheese /\ [][NextCheese]_vars

(***************************************************************************)
(* Graph: the vertices are a list, the adjacency is a dictionary from the  *)
(* index of a vertex to a dictionary from the index of a neighbor to the   *)
(* weight.  A dictionary is the list of its (key, value) in insertion      *)
(* order; indices start at 0 as in the code.                               *)
(***************************************************************************)
\* the vertices that may be added
GraphVertices == {"x", "y", "z"}

\* the weights of the edges that may be added
GraphWeights == {1, 2}

\* the largest number of entries of the adjacency of the graphs that are built
MaxGraphEdges == 3

\* the keys of a dictionary
DictKeys(d) == {d[k][1] : k \in 1..Len(d)}

\* d[key]
DictGet(d, key) == d[CHOOSE k \in 1..Len(d) : d[k][1] = key][2]

\* d[key] = value
DictSet(d, key, value) ==
    IF key \in DictKeys(d)
    THEN [k \in 1..Len(d) |-> IF d[k][1] = key THEN <<key, value>> ELSE d[k]]
    ELSE Append(d, <<key, value>>)

\* del d[key]
DictDel(d, key) == SelectSeq(d, LAMBDA e : e[1] # key)

\* self.vertices.index(vertex)
index_of(vs, vertex) == (CHOOSE i \in 1..Len(vs) : vs[i] = vertex) - 1

\* self.vertices[i]: a negative index counts from the end of the list
VertexAt(vs, i) == IF i >= 0 THEN vs[i + 1] ELSE vs[Len(vs) + i + 1]

\* self.__adjacency[i]
AdjacencyAt(g, i) == g.adjacency[i + 1]

\* Graph.get_neighbors
Graph_get_neighbors(g, vertex) ==
    LET d == AdjacencyAt(g, index_of(g.vertices, vertex))
    IN  [k \in 1..Len(d) |-> VertexAt(g.vertices, d[k][1])]

\* Graph.has_edge
Graph_has_edge(g, vertex_1, vertex_2) ==
    vertex_2 \in SeqToSet(Graph_get_neighbors(g, vertex_1))

\* get_weight raises KeyError: the dictionary has no such key
KeyError == -1

\* Graph.get_weight, its assertions passed
Graph_get_weight(g, vertex_1, vertex_2) ==
    LET d == AdjacencyAt(g, index_of(g.vertices, vertex_1))
        key == index_of(g.vertices, vertex_2)
    IN  IF key \in DictKeys(d) THEN DictGet(d, key) ELSE KeyError

\* Graph.add_vertex
Graph_add_vertex(g, vertex) ==
    [vertices |-> Append(g.vertices, vertex), adjacency |-> Append(g.adjacency, <<>>)]

\* self.__adjacency[i][key] = weight
SetEntry(g, i, key, weight) ==
    [g EXCEPT !.adjacency[i + 1] = DictSet(@, key, weight)]

\* del self.__adjacency[i][key]
DelEntry(g, i, key) == [g EXCEPT !.adjacency[i + 1] = DictDel(@, key)]

\* Graph.add_edge, its assertions passed
Graph_add_edge(g, vertex_1, vertex_2, weight, symmetric) ==
    LET i1 == index_of(g.vertices, vertex_1)
        i2 == index_of(g.vertices, vertex_2)
        one == SetEntry(g, i1, i2, weight)
    IN  IF symmetric THEN SetEntry(one, i2, i1, weight) ELSE one

\* Graph.remove_edge, its assertions passed: the second del raises KeyError if
\* the first one has removed the entry (an edge from a vertex to itself)
Graph_remove_edge(g, vertex_1, vertex_2, symmetric) ==
    LET i1 == index_of(g.vertices, vertex_1)
        i2 == index_of(g.vertices, vertex_2)
        one == DelEntry(g, i1, i2)
    IN  IF ~symmetric THEN [graph |-> one, raised |-> FALSE]
        ELSE IF i1 \in DictKeys(AdjacencyAt(one, i2))
        THEN [graph |-> DelEntry(one, i2, i1), raised |-> FALSE]
        ELSE [graph |-> one, raised |-> TRUE]

\* remove_vertex: "Remove connections to the vertex", over the neighbors that
\* get_neighbors returned
RECURSIVE RemoveConnections(_, _, _, _)
RemoveConnections(g, vertex, neighbors, k) ==
    IF k > Len(neighbors) THEN [graph |-> g, raised |-> FALSE]
    ELSE LET symmetric == Graph_has_edge(g, neighbors[k], vertex)
             removed == Graph_remove_edge(g, vertex, neighbors[k], symmetric)
         IN  IF removed.raised THEN removed
             ELSE RemoveConnections(removed.graph, vertex, neighbors, k + 1)

\* {key if key < index else key - 1 : value for key, value in d.items()}
RECURSIVE Rekeyed(_, _, _)
Rekeyed(d, index, k) ==
    IF k = 0 THEN <<>>
    ELSE DictSet(Rekeyed(d, index, k - 1),
                 IF d[k][1] < index THEN d[k][1] ELSE d[k][1] - 1,
                 d[k][2])

\* remove_vertex: "Remove the vertex and reindex the adjacency matrix"
Reindexed(g, index) ==
    [vertices |-> [i \in 1..(Len(g.vertices) - 1) |->
                     g.vertices[IF i - 1 >= index THEN i + 1 ELSE i]],
     adjacency |-> [i \in 1..(Len(g.vertices) - 1) |->
                      LET d == g.adjacency[IF i - 1 >= index THEN i + 1 ELSE i]
                      IN  Rekeyed(d, index, Len(d))]]

\* Graph.remove_vertex, its assertion passed: the graph it leaves, and whether it
\* raised
Graph_remove_vertex(g, vertex) ==
    LET cut == RemoveConnections(g, vertex, Graph_get_neighbors(g, vertex), 1)
    IN  IF cut.raised THEN cut
        ELSE [graph |-> Reindexed(cut.graph, index_of(g.vertices, vertex)),
              raised |-> FALSE]

\* the number of entries of the adjacency
RECURSIVE NbEntries(_, _)
NbEntries(g, i) ==
    IF i > Len(g.adjacency) THEN 0 ELSE Len(g.adjacency[i]) + NbEntries(g, i + 1)

InitGraph ==
    /\ InitGame
    /\ game_mode = SEQUENTIAL
    /\ game_state = InitialGameState(0)
    /\ continue_on_error
    /\ player_traces = NoTraces
    /\ NoGameOverCall
    /\ NoResolverCall
    /\ NoMemory
    /\ NoAside

\* graph.add_vertex(vertex)
G_AddVertex(vertex) ==
    /\ gr_removed = ""
    /\ vertex \notin SeqToSet(gr_graph.vertices)
    /\ gr_graph' = Graph_add_vertex(gr_graph, vertex)
    /\ UNCHANGED <<gr_before, gr_removed, gr_raised>>
    /\ UNCHANGED <<allButAside, registry, creation, distribution>>

\* graph.add_edge(vertex_1, vertex_2, weight, symmetric)
G_AddEdge(vertex_1, vertex_2, weight, symmetric) ==
    /\ gr_removed = ""
    /\ vertex_1 \in SeqToSet(gr_graph.vertices)
    /\ vertex_2 \in SeqToSet(gr_graph.vertices)
    /\ ~Graph_has_edge(gr_graph, vertex_1, vertex_2)
    /\ ~(symmetric /\ Graph_has_edge(gr_graph, vertex_2, vertex_1))
    /\ gr_graph' = Graph_add_edge(gr_graph, vertex_1, vertex_2, weight, symmetric)
    /\ NbEntries(gr_graph', 1) <= MaxGraphEdges
    /\ UNCHANGED <<gr_before, gr_removed, gr_raised>>
    /\ UNCHANGED <<allButAside, registry, creation, distribution>>

\* graph.remove_vertex(vertex)
G_RemoveVertex(vertex) ==
    /\ gr_removed = ""
    /\ vertex \in SeqToSet(gr_graph.vertices)
    /\ gr_before' = gr_graph
    /\ gr_removed' = vertex
    /\ gr_graph' = Graph_remove_vertex(gr_graph, vertex).graph
    /\ gr_raised' = Graph_remove_vertex(gr_graph, vertex).raised
    /\ UNCHANGED <<allButAside, registry, creation, distribution>>

NextGraph ==
    \/ \E vertex \in GraphVertices : G_AddVertex(vertex)
    \/ \E vertex_1, vertex_2 \in GraphVertices, weight \in GraphWeights,
          symmetric \in BOOLEAN : G_AddEdge(vertex_1, vertex_2, weight, symmetric)
    \/ \E vertex \in GraphVertices : G_RemoveVertex(vertex)

SpecGraph == InitGraph /\ [][NextGraph]_vars

(***************************************************************************)
(* Properties                                                              *)
(***************************************************************************)
\* start() has just gone from one part of a round to the next
MainStep(from) == mpc = from /\ mpc' # from

\* __determine_new_game_state has been applied: a turn was resolved
Resolved == game_state'.turn = game_state.turn + 1

\* C1. game_over() is true exactly when no cheese remains, or when there are at
\* least two teams and every team below the largest team score has
\* score + remaining cheese < largest score; so (10, 3, 3) with 2 cheese is over.
C1_GameOverAsStated ==
    go_is_over # <<>> =>
        LET T == DOMAIN go_score_per_team
            max == CHOOSE m \in {go_score_per_team[t] : t \in T} :
                       \A t \in T : go_score_per_team[t] <= m
        IN  go_is_over[1] <=>
               \/ go_nb_cheese = 0
               \/ /\ Cardinality(T) >= 2
                  /\ \A t \in T : go_score_per_team[t] < max =>
                        go_score_per_team[t] + go_nb_cheese * ScoreUnit < max

\* C2 as stated. In STANDARD mode the answer of a player that was marked MISS is
\* discarded: start() reads the output queue of a player only in a round in which
\* the player was given an input.
C2_LateAnswerDiscarded ==
    [][game_mode = STANDARD =>
         \A p \in PlayerSet :
            Len(output_queue'[p]) < Len(output_queue[p]) => p \in players_ready]_vars

\* C2. In STANDARD mode an answer published after the sampling of its round stays
\* in the output queue (which never holds more than one item, the player's process
\* waiting in its turn_end_synchronizer); the next sampling of start() reads every
\* answer it finds, also that of a player that got no input in that round, and
\* takes it as the player's action and phase of that later round.
C2_LateAnswerAccepted ==
    [][game_mode = STANDARD =>
         \A p \in PlayerSet :
            /\ Len(output_queue'[p]) <= 1
            /\ output_queue'[p] # <<>> => wpc'[p] = "end"
            /\ Len(output_queue'[p]) < Len(output_queue[p]) =>
                  /\ turn_actions'[p] = Head(output_queue[p]).action
                  /\ game_phases'[p] = Head(output_queue[p]).game_phase
                  /\ p \notin players_ready => mpc = "sample"
            /\ MainStep("sample") /\ Pending(p) => output_queue[p] = <<>>]_vars

\* C2, witness: the answer of a player that got no input in this round has been
\* read, and the round is about to apply it as a move
C2_LateAnswerRead ==
    /\ game_mode = STANDARD
    /\ mpc = "post"
    /\ ~game_over(game_state)
    /\ \E p \in PlayerSet :
          /\ p \notin players_ready
          /\ game_phases[p] = "turn"
          /\ turn_actions[p] \in all_action_names \ {NOTHING}

\* C3 as stated. In STANDARD mode a player that has missed a turn is marked MISS
\* once, gets no input in any later round and keeps its score.
C3_BenchedForGood ==
    [][game_mode = STANDARD =>
         \A p \in PlayerSet :
            stats.players[p].actions["miss"] > 0 =>
               /\ stats'.players[p].actions["miss"] = stats.players[p].actions["miss"]
               /\ Len(input_queue'[p]) <= Len(input_queue[p])
               /\ game_state'.score_per_player[p] = game_state.score_per_player[p]]_vars

\* C3. In STANDARD mode a player without an answer at the sampling of a round is
\* marked MISS for that round: it leaves players_ready, its waiter is told to go
\* to the turn_start_synchronizer, and if the round is resolved its "miss" tally
\* grows by one and its location, mud and score stay; a player out of
\* players_ready gets no input; this lasts until a sampling finds its answer:
\* a player whose answer was taken in a round (and is not through
\* postprocessing) is in players_ready again and gets the input of the next round.
C3_BenchedUntilAnswer ==
    [][game_mode = STANDARD =>
         \A p \in PlayerSet :
            /\ MainStep("post") /\ game_phases[p] = "none" =>
                  /\ p \notin players_ready'
                  /\ waiter_queue'[p] = waiter_queue[p] + 1
                  /\ Resolved =>
                        /\ stats'.players[p].actions["miss"]
                              = stats.players[p].actions["miss"] + 1
                        /\ game_state'.player_locations[p] = game_state.player_locations[p]
                        /\ game_state'.muds[p] = game_state.muds[p]
                        /\ game_state'.score_per_player[p] = game_state.score_per_player[p]
            /\ MainStep("post") /\ game_phases[p] \in {"preprocessing", "turn"} =>
                  /\ p \in players_ready'
                  /\ waiter_queue'[p] = waiter_queue[p]
            /\ MainStep("loop") /\ mpc' = "start" =>
                  Len(input_queue'[p]) = Len(input_queue[p])
                                            + (IF p \in players_ready THEN 1 ELSE 0)
            /\ ~MainStep("loop") => Len(input_queue'[p]) <= Len(input_queue[p])]_vars

\* C3, witness: a player that was marked MISS in two rounds is asked again
C3_AskedAgainAfterMiss ==
    /\ game_mode = STANDARD
    /\ mpc = "start"
    /\ \E p \in PlayerSet :
          /\ stats.players[p].actions["miss"] >= 2
          /\ p \in players_ready
          /\ input_queue[p] # <<>>

\* C4, as a property of the runs of FairSpec. In STANDARD mode, once the game is
\* over the loop of start() ends, rendering_engine.end() is called once and the
\* statistics are returned, even if a player never returns from turn().
C4_EventuallyDone ==
    (game_mode = STANDARD /\ continue_on_error /\ game_over(game_state))
        ~> (mpc = "done" /\ returned = "stats" /\ end_calls = 1)

\* C4. In STANDARD mode a player that never returns from turn() cannot keep the
\* loop of start() running: when the game is over and every player's process is
\* either through postprocessing or inside a turn() that never returns, start()
\* finds the condition of its loop false.
C4_MatchFinishes ==
    ( /\ game_mode = STANDARD
      /\ mpc = "loop"
      /\ game_over(game_state)
      /\ \A p \in PlayerSet : wpc[p] \in {"exit", "hung"} )
        => ~AnyRunning

\* C5. In STANDARD mode, whenever start() is at or on its way to the
\* turn_start_synchronizer, each player has exactly one party for it: a player of
\* players_ready has its own process in the barrier and an idle waiter, any other
\* player has its process elsewhere and its waiter in the barrier or told to go
\* there; and the barrier is passed by start() with, for each player, exactly one
\* of the player's process and its waiter.
C5_OnePartyPerPlayer ==
    [][game_mode = STANDARD =>
         \A p \in PlayerSet :
            /\ mpc' \in {"loop", "start"} =>
                  IF p \in players_ready'
                  THEN wpc'[p] = "start" /\ spc'[p] = "get" /\ waiter_queue'[p] = 0
                  ELSE /\ wpc'[p] # "start"
                       /\ \/ spc'[p] = "get" /\ waiter_queue'[p] = 1
                          \/ spc'[p] = "start" /\ waiter_queue'[p] = 0
            /\ MainStep("start") =>
                  (wpc[p] = "start" /\ wpc'[p] = "recv")
                     # (spc[p] = "start" /\ spc'[p] = "get")]_vars

\* C5, witness: start() is in the barrier with the process of one player and the
\* waiter of another, whose own process still waits for its late answer to be taken
C5_WorkerAndWaiterArrive ==
    /\ game_mode = STANDARD
    /\ mpc = "start"
    /\ \E p, q \in PlayerSet :
          /\ wpc[p] = "start"
          /\ spc[q] = "start"
          /\ wpc[q] = "end"

\* C6. In STANDARD mode start() holds turn_timeout_lock exactly while it samples;
\* it enters the turn_end_synchronizer of a pending player only if the player's
\* output is there, with the player's process in that barrier, so that the
\* barrier is passed; while it samples it can always take a step; and when the
\* sampling ends each pending player either had its answer taken or is marked
\* MISS with nothing in its output queue.
C6_SamplingUnderLock ==
    game_mode = STANDARD =>
        /\ lock = "main" <=> mpc = "sample"
        /\ mpc = "sample" /\ mjoin \in PlayerSet =>
              /\ Pending(mjoin)
              /\ output_queue[mjoin] # <<>>
              /\ wpc[mjoin] = "end"
        /\ mpc = "sample" => ENABLED (M_SampleJoin \/ M_Collect)
        /\ mpc = "sample" /\ mjoin = "nobody" =>
              \A i \in 1..N :
                 Pending(Players[i]) =>
                    IF game_phases[Players[i]] = "none"
                    THEN /\ turn_actions[Players[i]] = "miss"
                         /\ i < mi => output_queue[Players[i]] = <<>>
                    ELSE /\ turn_actions[Players[i]] # "miss"
                         /\ i < mi

\* C6, witness: start() is in the turn_end_synchronizer of a player whose answer
\* is there, after it has passed over a player that is still computing
C6_AcceptAndMiss ==
    /\ game_mode = STANDARD
    /\ mpc = "sample"
    /\ mjoin = Players[2]
    /\ wpc[Players[1]] = "call"
    /\ Pending(Players[1])

\* C7. With continue_on_error = False, a round in which start() holds the action
\* "error" of a player (from preprocessing, turn or postprocessing) is not
\* resolved: the state, the stats and the rendering stay, start() returns {} and
\* goes to __end, where rendering_engine.end() is called once.
C7_CrashAborts ==
    [][/\ ( /\ MainStep("post")
            /\ ~continue_on_error
            /\ \E p \in PlayerSet : turn_actions[p] = "error" )
          => /\ mpc' = "end"
             /\ returned' = "empty"
             /\ game_state' = game_state
             /\ stats' = stats
             /\ render_calls' = render_calls
       /\ MainStep("end") =>
             /\ mpc' = "done"
             /\ end_calls = 0 /\ end_calls' = 1
             /\ returned' = returned
       /\ returned' = "empty" => mpc' \in {"end", "done"}]_vars

\* C7, witness: the game was stopped in a resolved turn by a crash, {} was
\* returned and rendering_engine.end() was called
C7_AbortedOnCrash ==
    /\ ~continue_on_error
    /\ mpc = "done"
    /\ returned = "empty"
    /\ end_calls = 1
    /\ game_state.turn > 0
    /\ \E p \in PlayerSet : turn_actions[p] = "error" /\ game_phases[p] = "turn"

\* C8 as stated. With continue_on_error = True, in a round in which start() holds
\* the action "error" of a player, the "error" tally of the player grows by one
\* and the player is asked again in the next round.
C8_EveryCrashTallied ==
    [][( /\ MainStep("post")
         /\ continue_on_error )
         => \A p \in PlayerSet :
               turn_actions[p] = "error" =>
                  /\ stats'.players[p].actions["error"]
                        = stats.players[p].actions["error"] + 1
                  /\ p \in players_ready']_vars

\* C8. With continue_on_error = True, a round in which start() holds the action
\* "error" of a player does not stop the game.  If the crash was in turn() and
\* the game is not over, the round is resolved with NOTHING for the player and
\* the actions of the others as they are, the "error" tally of the player grows
\* by one and no other tally of it changes.  A crash in preprocessing is not
\* tallied.  After a crash in preprocessing or turn() the player is in
\* players_ready again; after a crash in postprocessing it is not running any
\* more.  start() does not return {} (when the turn of the state is set).
C8_CrashGoesOn ==
    [][/\ ( /\ MainStep("post")
            /\ continue_on_error )
          => \A p \in PlayerSet :
                turn_actions[p] = "error" =>
                   /\ mpc' = "loop"
                   /\ returned' = returned
                   /\ game_phases[p] = "turn" /\ ~game_over(game_state) =>
                         /\ game_state' = determine_new_game_state(Players, game_state,
                               [q \in PlayerSet |->
                                  IF q # p /\ turn_actions[q] \in all_action_names
                                  THEN turn_actions[q] ELSE NOTHING])
                         /\ game_state'.player_locations[p] = game_state.player_locations[p]
                         /\ stats'.players[p].actions =
                               [stats.players[p].actions EXCEPT !["error"] = @ + 1]
                   /\ game_phases[p] = "preprocessing" =>
                         stats'.players[p].actions = stats.players[p].actions
                   /\ game_phases[p] \in {"preprocessing", "turn"} => p \in players_ready'
                   /\ game_phases[p] = "postprocessing" => ~players_running'[p]
       /\ continue_on_error /\ game_state.turn # NoTurn => returned' # "empty"]_vars

\* C8, witness: a player has crashed in turn(), its "error" tally is 1, it is
\* asked again, and the other player has moved in the meantime
C8_CrashedAndAskedAgain ==
    /\ continue_on_error
    /\ mpc = "loop"
    /\ \E p, q \in PlayerSet :
          /\ p # q
          /\ stats.players[p].actions["error"] = 1
          /\ p \in players_ready
          /\ game_state.player_locations[p] = InitialGameState(0).player_locations[p]
          /\ game_state.player_locations[q] # InitialGameState(0).player_locations[q]

\* the mud edge a player takes with its action of this round: the weight of the
\* edge, 0 if the action is no accepted move
WeightTaken(p) ==
    LET location == game_state.player_locations[p]
        target == TargetOf(location, corrected_actions[p])
    IN  IF CanMove(location, target) THEN get_weight(location, target) ELSE 0

\* C9 as stated. A player that enters mud is not decremented in the same turn:
\* after the turn in which its move over an edge of weight w is accepted its mud
\* record is (target, w).
C9_EntryNotDecremented ==
    [][Resolved =>
         \A p \in PlayerSet :
            ~is_in_mud(game_state, p) /\ WeightTaken(p) > 1 =>
               game_state'.muds[p] =
                  [target |-> TargetOf(game_state.player_locations[p], corrected_actions[p]),
                   count |-> WeightTaken(p)]]_vars

\* C9. A player that enters mud is decremented in the same turn: after the turn t
\* in which its move over an edge of weight w > 1 is accepted its mud record is
\* (target, w - 1) and its location is the old one; in each later turn it is
\* asked no decision (its action is "mud"), the count goes down by one, and in
\* the turn in which the count gets to 0, turn t + w - 1, its location becomes
\* the target and the record is cleared.
C9_EntryDecremented ==
    [][Resolved =>
         \A p \in PlayerSet :
            /\ ~is_in_mud(game_state, p) /\ WeightTaken(p) > 1 =>
                  /\ game_state'.muds[p] =
                        [target |-> TargetOf(game_state.player_locations[p],
                                             corrected_actions[p]),
                         count |-> WeightTaken(p) - 1]
                  /\ game_state'.player_locations[p] = game_state.player_locations[p]
            /\ is_in_mud(game_state, p) =>
                  /\ turn_actions[p] = "mud"
                  /\ IF game_state.muds[p].count = 1
                     THEN /\ game_state'.player_locations[p] = game_state.muds[p].target
                          /\ game_state'.muds[p] = NoMud
                          /\ get_weight(game_state.player_locations[p],
                                        game_state.muds[p].target) >= 2
                     ELSE /\ game_state'.player_locations[p] = game_state.player_locations[p]
                          /\ game_state'.muds[p] =
                                [game_state.muds[p] EXCEPT !.count = @ - 1]]_vars

\* C9, witness: a player has just entered the mud of weight 3 and its count is 2
C9_JustEnteredMud ==
    \E p \in PlayerSet :
       /\ game_state.muds[p].target # NoTarget
       /\ get_weight(game_state.player_locations[p], game_state.muds[p].target) = 3
       /\ game_state.muds[p].count = 2
       /\ mpc = "loop"

\* C10. In every state and for every player: the player is in mud iff the target
\* of its mud record is set iff the count is positive.  In a resolved turn a
\* player that was in mud keeps its target and its location and its count goes
\* down by one, except in the turn in which the count gets to 0, where the
\* location becomes the target and the record is cleared; this is so whatever
\* the actions of the round are.  The location of a player changes in a turn
\* only by a move over an edge of weight 1 or by getting out of the mud.
C10_MudInvariant ==
    [][/\ \A p \in PlayerSet :
             /\ is_in_mud(game_state', p) <=> game_state'.muds[p].target # NoTarget
             /\ is_in_mud(game_state', p) <=> game_state'.muds[p].count > 0
       /\ Resolved =>
             \A p \in PlayerSet :
                /\ is_in_mud(game_state, p) =>
                      IF game_state.muds[p].count > 1
                      THEN /\ game_state'.muds[p].target = game_state.muds[p].target
                           /\ game_state'.muds[p].count = game_state.muds[p].count - 1
                           /\ game_state'.player_locations[p]
                                 = game_state.player_locations[p]
                      ELSE /\ game_state'.player_locations[p] = game_state.muds[p].target
                           /\ game_state'.muds[p] = NoMud
                /\ game_state'.player_locations[p] # game_state.player_locations[p] =>
                      \/ is_in_mud(game_state, p) /\ game_state.muds[p].count = 1
                      \/ ~is_in_mud(game_state, p) /\ WeightTaken(p) = 1
       /\ ~Resolved => game_state' = game_state]_vars

\* C10, witness: a player is out of the mud, on the cell that was its target,
\* while the other player is still in mud with its count decremented to 1
C10_OutOfMud ==
    /\ game_state.player_locations["b"] = 4
    /\ ~is_in_mud(game_state, "b")
    /\ game_state.muds["a"] = [target |-> 3, count |-> 1]

\* the state after n more turns of start() in which every player does nothing
RECURSIVE StillTurns(_, _, _)
StillTurns(players, gs, n) ==
    IF n = 0 THEN gs
    ELSE StillTurns(players,
                    determine_new_game_state(players, gs,
                                             [p \in SeqToSet(players) |-> NOTHING]),
                    n - 1)

\* the player is free and its action points over an edge
TakesEdge(gs, actions, p) ==
    /\ ~is_in_mud(gs, p)
    /\ CanMove(gs.player_locations[p], TargetOf(gs.player_locations[p], actions[p]))

\* C11. The weight w of an edge is the number of turns it takes to cross: a player
\* that moves over it stays on its cell for the w - 1 first resolved turns and
\* stands on the far cell after exactly w resolved turns, the turn of the move
\* included; an edge of weight 1 is crossed in the turn of the move.
C11_WeightIsTurns ==
    rs_out # <<>> =>
        \A p \in ResolvePlayerSet :
            TakesEdge(rs_state, rs_actions, p) =>
                LET location == rs_state.player_locations[p]
                    target == TargetOf(location, rs_actions[p])
                    weight == get_weight(location, target)
                IN  /\ \A k \in 1..(weight - 1) :
                          StillTurns(ResolvePlayers, rs_out[1], k - 1).player_locations[p]
                              = location
                    /\ StillTurns(ResolvePlayers, rs_out[1], weight - 1).player_locations[p]
                          = target

\* a player has just moved over the edge of weight 3, another over an edge of weight 1
C11_MudAndFreeMove ==
    /\ rs_out # <<>>
    /\ \E p, q \in ResolvePlayerSet :
          /\ TakesEdge(rs_state, rs_actions, p)
          /\ get_weight(rs_state.player_locations[p],
                        TargetOf(rs_state.player_locations[p], rs_actions[p])) = 3
          /\ TakesEdge(rs_state, rs_actions, q)
          /\ rs_out[1].player_locations[q] # rs_state.player_locations[q]

\* the players standing on cell c in a game state
PlayersOn(gs, c) == {p \in DOMAIN gs.player_locations : gs.player_locations[p] = c}

\* what the turn added to the score of a player
Gain(old, new, p) == new.score_per_player[p] - old.score_per_player[p]

\* C12. For every cheese cell on which k >= 1 players stand after all movement,
\* each of them gains exactly 1 / k (one half for two, one third for three) and
\* the cheese is removed in that turn; a player on no cheese gains nothing and a
\* cheese with no player on it stays.
C12_CheeseShared ==
    rs_out # <<>> =>
        /\ \A c \in SeqToSet(rs_state.cheese) :
              LET k == Cardinality(PlayersOn(rs_out[1], c)) IN
              IF k >= 1
              THEN /\ \A p \in PlayersOn(rs_out[1], c) :
                          k * Gain(rs_state, rs_out[1], p) = ScoreUnit
                   /\ c \notin SeqToSet(rs_out[1].cheese)
              ELSE c \in SeqToSet(rs_out[1].cheese)
        /\ \A p \in ResolvePlayerSet :
              rs_out[1].player_locations[p] \notin SeqToSet(rs_state.cheese)
                  => Gain(rs_state, rs_out[1], p) = 0

\* the three players came onto one cheese in the same turn, one of them out of
\* the mud, and another cheese was left alone
C12_ThreeOnOneCheese ==
    /\ rs_out # <<>>
    /\ \E c \in SeqToSet(rs_state.cheese) :
          /\ PlayersOn(rs_out[1], c) = ResolvePlayerSet
          /\ \E p \in ResolvePlayerSet : is_in_mud(rs_state, p)
    /\ rs_out[1].cheese # <<>>

\* C13. The state a turn resolves to does not depend on the order in which the
\* players are processed: for every permutation of the player list the locations,
\* mud records, scores and cheese are the same; the cheese is awarded from the
\* locations of all players after every move and mud arrival of the turn, so the
\* players that come onto one cheese in the same turn gain the same.
C13_OrderIndependent ==
    rs_permuted # <<>> =>
        /\ rs_permuted[2].player_locations = rs_out[1].player_locations
        /\ rs_permuted[2].muds = rs_out[1].muds
        /\ rs_permuted[2].score_per_player = rs_out[1].score_per_player
        /\ rs_permuted[2].cheese = rs_out[1].cheese
        /\ \A c \in SeqToSet(rs_state.cheese) :
              \A p, q \in PlayersOn(rs_permuted[2], c) :
                  /\ Gain(rs_state, rs_permuted[2], p) = Gain(rs_state, rs_permuted[2], q)
                  /\ Gain(rs_state, rs_permuted[2], p) > 0

\* the players were processed in the reverse order, and the last and the first
\* of them came onto the same cheese in that turn
C13_ReversedAndShared ==
    /\ rs_permuted # <<>>
    /\ rs_permuted[1] = <<"c", "b", "a">>
    /\ \E x \in SeqToSet(rs_state.cheese) : {"a", "c"} \subseteq PlayersOn(rs_permuted[2], x)

TotalScore(gs) == SumScores(gs.score_per_player, Players, 1)

\* C14. At every turn the sum of the scores of all players is at most the initial
\* number of cheese, and the score of every player (hence the sum) never
\* decreases from one turn to the next.
C14_ScoresBounded ==
    /\ TotalScore(game_state) <= Len(InitialCheese) * ScoreUnit
    /\ [][ /\ TotalScore(game_state') <= Len(InitialCheese) * ScoreUnit
           /\ \A p \in PlayerSet :
                 game_state'.score_per_player[p] >= game_state.score_per_player[p]
           /\ TotalScore(game_state') >= TotalScore(game_state) ]_vars

\* both players came onto the cheese in the same turn, the second turn after
\* the preprocessing, and have half of it each
C14_CheeseSplit ==
    /\ game_state.turn = 3
    /\ \A p \in PlayerSet : 2 * game_state.score_per_player[p] = ScoreUnit

\* C15. The remaining cheese only shrinks: a turn adds no cheese, and a cheese is
\* removed in the very turn in which the location of a player becomes its cell, by
\* a free move or by an arrival out of the mud, never later: no player ever
\* stands on a cheese that is still there.
C15_CheeseOnlyShrinks ==
    rs_out # <<>> =>
        /\ SeqToSet(rs_out[1].cheese) \subseteq SeqToSet(rs_state.cheese)
        /\ Len(rs_out[1].cheese) <= Len(rs_state.cheese)
        /\ \A p \in ResolvePlayerSet :
              /\ rs_state.player_locations[p] \notin SeqToSet(rs_state.cheese)
              /\ rs_out[1].player_locations[p] \notin SeqToSet(rs_out[1].cheese)

\* two cheese went in one turn: one to a player that moved freely, the other to a
\* player that came out of the mud
C15_TakenByMoveAndArrival ==
    /\ rs_out # <<>>
    /\ Len(rs_state.cheese) = 2
    /\ rs_out[1].cheese = <<>>
    /\ \E p, q \in ResolvePlayerSet :
          /\ is_in_mud(rs_state, p)
          /\ rs_out[1].player_locations[p] \in SeqToSet(rs_state.cheese)
          /\ ~is_in_mud(rs_state, q)
          /\ rs_out[1].player_locations[q] \in SeqToSet(rs_state.cheese)

\* the cell is inside the grid and is a vertex of the maze
ExistingCell(v) == v \in 0..(width * height - 1) /\ i_exists(v)

\* the locations of a game state are existing cells and its mud targets are
\* existing cells joined by an edge to the location of the player
OnTheMaze(gs) ==
    \A p \in DOMAIN gs.player_locations :
        /\ ExistingCell(gs.player_locations[p])
        /\ is_in_mud(gs, p) =>
              /\ ExistingCell(gs.muds[p].target)
              /\ has_edge(gs.player_locations[p], gs.muds[p].target)

\* C16. In every reachable state the location of every player is an existing
\* vertex of the maze: the start location is corrected to an existing cell, a
\* move is applied only to an existing cell inside the grid that an edge joins to
\* the current cell, and a mud target is always such a cell.
C16_LocationsExist ==
    /\ OnTheMaze(rs_state)
    /\ rs_out # <<>> =>
          /\ OnTheMaze(rs_out[1])
          /\ \A p \in ResolvePlayerSet :
                rs_out[1].player_locations[p] # rs_state.player_locations[p] =>
                    \/ has_edge(rs_state.player_locations[p], rs_out[1].player_locations[p])
                    \/ rs_out[1].player_locations[p] = rs_state.muds[p].target

\* a player started on the cell closest to the missing cell it may have asked for
\* and pointed out of the grid, the two others left the same cell, one by a free
\* move and one into the mud
C16_WallMoveAndMud ==
    /\ rs_out # <<>>
    /\ rs_state.player_locations["a"] = start_location(width * height - 1)
    /\ rs_actions["a"] = EAST
    /\ rs_out[1].player_locations["b"] # rs_state.player_locations["b"]
    /\ ~is_in_mud(rs_state, "c") /\ is_in_mud(rs_out[1], "c")

\* the action start() accepted from the player in this round is a direction that
\* points out of the grid, at a missing cell, or at a cell no edge joins
Blocked(p) ==
    /\ turn_actions[p] \in all_action_names \ {NOTHING}
    /\ ~CanMove(game_state.player_locations[p],
                TargetOf(game_state.player_locations[p], turn_actions[p]))

\* C18. In a resolved turn the "wall" tally of a player is incremented if and only
\* if its accepted action is a direction whose destination is out of the grid, not
\* an existing cell, or not joined to its cell by an edge, and then the player
\* does not move; a direction accepted over an existing edge (of weight 1, or of
\* weight > 1, entering the mud) is tallied under that direction, and NOTHING is
\* tallied as NOTHING.
C18_WallTally ==
    [][ (MainStep("post") /\ Resolved) =>
          \A p \in PlayerSet :
              (game_phases[p] = "turn" /\ turn_actions[p] \in all_action_names) =>
                  /\ (stats'.players[p].actions["wall"] = stats.players[p].actions["wall"] + 1)
                        <=> Blocked(p)
                  /\ Blocked(p) =>
                        game_state'.player_locations[p] = game_state.player_locations[p]
                  /\ ~Blocked(p) =>
                        stats'.players[p].actions[turn_actions[p]]
                            = stats.players[p].actions[turn_actions[p]] + 1 ]_vars

\* the largest team score handed to game_over
MaxTeamScoreOf(score_per_team) ==
    CHOOSE m \in {score_per_team[t] : t \in DOMAIN score_per_team} :
        \A t \in DOMAIN score_per_team : score_per_team[t] <= m

\* C19. A state in which all teams have the same score while cheese remains is
\* not terminal (three teams at (5, 5, 5) with 2 cheese: game_over() is false);
\* more generally a tie at the largest score does not end the match while cheese
\* remains and some team could still tie or pass the leader.
C19_TieGoesOn ==
    (go_is_over # <<>> /\ go_nb_cheese > 0) =>
        LET T == DOMAIN go_score_per_team
            max == MaxTeamScoreOf(go_score_per_team)
            leaders == {t \in T : go_score_per_team[t] = max}
        IN  /\ leaders = T => ~go_is_over[1]
            /\ ( /\ Cardinality(leaders) >= 2
                 /\ \E t \in T : go_score_per_team[t] + go_nb_cheese * ScoreUnit >= max )
                  => ~go_is_over[1]

\* game_over() was called on three teams at (5, 5, 5) with 2 cheese and said no
C19_ThreeTeamsTied ==
    /\ go_is_over = <<FALSE>>
    /\ go_nb_cheese = 2
    /\ go_score_per_team = [t \in {"t1", "t2", "t3"} |-> 5 * ScoreUnit]

\* C20. When all players are in one team, game_over() is true if and only if no
\* cheese remains, whatever the scores.
C20_OneTeamUntilNoCheese ==
    (go_is_over # <<>> /\ Cardinality(DOMAIN go_score_per_team) = 1) =>
        (go_is_over[1] <=> go_nb_cheese = 0)

\* game_over() was called on a single team that has taken MaxTeamScore cheese,
\* with one cheese left, and said no
C20_OneTeamCheeseLeft ==
    /\ go_is_over = <<FALSE>>
    /\ go_nb_cheese = 1
    /\ go_score_per_team = [t \in {"t1"} |-> MaxTeamScore * ScoreUnit]

\* the second call of game_over() has just been made
CalledLater == Len(go_is_over) = 1 /\ Len(go_is_over') = 2

\* C21 as stated. Termination is monotonic: if game_over() is true of a state, it
\* is true of every state derived from it by only adding to the scores or
\* removing cheese.
C21_OverStaysOver ==
    [][(CalledLater /\ go_is_over[1]) => go_is_over'[2]]_vars

\* C21. If game_over() is true of a state, it is true of every state derived from
\* it by removing cheese and adding to the scores no more than the cheese removed.
C21_OverStaysOverAsCheeseGoes ==
    [][( /\ CalledLater
         /\ go_is_over[1]
         /\ SumOver(go_score_per_team', DOMAIN go_score_per_team)
                - SumOver(go_score_per_team, DOMAIN go_score_per_team)
              <= (go_nb_cheese - go_nb_cheese') * ScoreUnit )
        => go_is_over'[2]]_vars

\* game_over() was true of three teams with cheese left, two of them then shared
\* a cheese, and it is true again, with cheese still left
C21_SharedAndStillOver ==
    /\ go_is_over = <<TRUE, TRUE>>
    /\ go_nb_cheese > 0
    /\ Cardinality(DOMAIN go_score_per_team) = 3
    /\ Cardinality({t \in DOMAIN go_score_per_team :
                        go_score_per_team[t] % ScoreUnit # 0}) = 2

(***************************************************************************)
(* The calls of the methods of a player                                    *)
(***************************************************************************)
\* the step calls a method of the player: its process got an input, or start()
\* calls _player_process_function itself, and the player is not in mud
CallStep(p) ==
    \/ /\ wpc[p] = "recv"
       /\ wpc'[p] = "call"
       /\ wjob'[p] # "mud"
    \/ /\ mpc = "call"
       /\ Len(round_calls') = Len(round_calls) + 1
       /\ round_calls'[Len(round_calls')] = p
       /\ JobOf(InputFor(game_state, stats), p) # "mud"

\* the call made now comes after the call made before in the order of the methods
InOrder(before, now) ==
    /\ before.method # "postprocessing"
    /\ now.method = "preprocessing" => before.method = "none" /\ now.turn = 0
    /\ now.method = "turn" =>
          /\ before.method \in {"preprocessing", "turn"}
          /\ now.turn > before.turn
          /\ ~now.over
    /\ now.method = "postprocessing" =>
          /\ before.method \in {"preprocessing", "turn"}
          /\ now.over

\* the order alone: no call is out of order, and a game that ends with its
\* statistics went through the postprocessing of every player
CallsNeverOutOfOrder ==
    [][/\ \A p \in PlayerSet : CallStep(p) => InOrder(last_call[p], last_call'[p])
       /\ returned' = "stats" => \A p \in PlayerSet : last_call'[p].method = "postprocessing"]_vars

\* C22: the calls of every player follow one order: preprocessing once, on the
\* state of turn 0 and before any turn(); then turn() at most once per round and
\* only on a state that is not over; then postprocessing once, on a state that is
\* over; nothing after postprocessing.  When start() has returned, the
\* preprocessing of every player was called or its input is on the way.
C22_CallsInOrder ==
    [][/\ \A p \in PlayerSet : CallStep(p) => InOrder(last_call[p], last_call'[p])
       /\ returned' = "stats" => \A p \in PlayerSet : last_call'[p].method = "postprocessing"
       /\ mpc' = "done" => \A p \in PlayerSet :
                              last_call'[p].method # "none" \/ input_queue'[p] # <<>>]_vars

\* the state the player is called on in a step CallStep
GivenState(p) ==
    IF game_mode = SEQUENTIAL THEN game_state ELSE Head(input_queue[p]).game_state

\* C23: a player in mud is not asked: no turn() is called on a state in which the
\* player is in mud; at the end of a round on a state in which it is in mud the
\* player (if not retired) is never a miss, and if that state is not over its outcome is "mud" and
\* the resolved turn adds one to its "mud" tally and nothing to its "miss" tally.
C23_MudNeverAsked ==
    [][\A p \in PlayerSet :
          /\ (CallStep(p) /\ is_in_mud(GivenState(p), p))
                => last_call'[p].method = "postprocessing"
          /\ (MainStep("post") /\ is_in_mud(game_state, p) /\ players_running[p])
                => /\ turn_actions[p] # "miss"
                   /\ ~game_over(game_state) =>
                         /\ turn_actions[p] = "mud"
                         /\ game_phases[p] = "turn"
                         /\ Resolved =>
                               /\ stats'.players[p].actions["mud"]
                                     = stats.players[p].actions["mud"] + 1
                               /\ stats'.players[p].actions["miss"]
                                     = stats.players[p].actions["miss"]]_vars

\* standard mode: a player was in mud for a turn while the other one missed one
C23_MudTalliedBesideMiss ==
    /\ game_mode = STANDARD
    /\ \E p, q \in PlayerSet :
          /\ stats.players[p].actions["mud"] >= 1
          /\ stats.players[p].actions["miss"] = 0
          /\ stats.players[q].actions["miss"] >= 1

\* the outcome of the player in the round is "mud" or an action read in time
Decided(p) ==
    /\ game_phases[p] = "turn"
    /\ turn_actions[p] \in all_action_names \cup {"mud"}

\* C24: a player whose outcome in a round is "mud" or a decision read in time is
\* ready for the next round and no waiter is asked to stand in for it; the next
\* round gives it an input (or calls it, in sequential mode), and at the
\* turn_start_synchronizer of that round its own process arrives, not its waiter.
C24_DecidedStaysReady ==
    [][\A p \in PlayerSet :
          /\ (MainStep("post") /\ mpc' = "loop" /\ Decided(p))
                => /\ p \in players_ready'
                   /\ waiter_queue'[p] = waiter_queue[p]
          /\ (MainStep("loop") /\ mpc' = "start" /\ Decided(p))
                => input_queue'[p] = Append(input_queue[p], InputFor(game_state, stats))
          /\ (MainStep("loop") /\ mpc' = "call" /\ Decided(p))
                => p \in players_ready
          /\ (MainStep("start") /\ p \in players_ready)
                => /\ waiter_queue[p] = 0
                   /\ spc'[p] = spc[p]
                   /\ spc[p] # "start"
                   /\ wpc[p] = "start"
                   /\ wpc'[p] = "recv"]_vars

\* standard mode, after the first turns: the round starts with an input for a
\* player that decided and with the waiter of the other player at the rendezvous
C24_InputBesideWaiter ==
    /\ game_mode = STANDARD
    /\ mpc = "start"
    /\ game_state.turn >= 2
    /\ \E p, q \in PlayerSet :
          /\ p \in players_ready
          /\ input_queue[p] # <<>>
          /\ stats.players[p].actions["miss"] = 0
          /\ q \notin players_ready
          /\ spc[q] = "start"

\* some player of the turn_start_synchronizer stands for the player: its process,
\* or its waiter, which is there or has a token to get
Represented(p) ==
    \/ wpc[p] = "start"
    \/ spc[p] = "start"
    \/ spc[p] = "get" /\ waiter_queue[p] > 0

\* C25: a miss, or a crash when continue_on_error is true, stays with the player:
\* the round does not end the game; if the state is not over the turn is resolved
\* with the accepted actions of the others (NOTHING for the player) and the turn
\* goes up by one; the players that decided are ready for the next round, every
\* ready player gets its input, and every rendezvous has its parties.
C25_MissAndCrashAreLocal ==
    [][/\ ( /\ MainStep("post")
            /\ \E p \in PlayerSet : turn_actions[p] \in {"miss", "error"}
            /\ continue_on_error \/ \A p \in PlayerSet : turn_actions[p] # "error" )
          => /\ mpc' = "loop"
             /\ returned' = "none"
             /\ \A q \in PlayerSet : Decided(q) => q \in players_ready'
             /\ ~game_over(game_state) =>
                   /\ game_state' = determine_new_game_state(Players, game_state,
                         [q \in PlayerSet |-> IF turn_actions[q] \in {"miss", "error"}
                                              THEN NOTHING ELSE corrected_actions[q]])
                   /\ Resolved
       /\ (MainStep("loop") /\ mpc' = "start")
          => \A q \in players_ready :
                input_queue'[q] = Append(input_queue[q], InputFor(game_state, stats))
       /\ mpc' = "start" => \A q \in PlayerSet : Represented(q)']_vars

\* the game went to its end and gave its statistics though a player missed a turn
\* and the other one crashed in a turn before it took the cheese
C25_FinishedDespiteMissAndCrash ==
    /\ returned = "stats"
    /\ \E p, q \in PlayerSet :
          /\ p # q
          /\ stats.players[p].actions["miss"] >= 1
          /\ stats.players[q].actions["error"] >= 1
          /\ stats.players[q].score > 0

\* the outcome of a turn() that raised
Crashed == [action |-> "error", game_phase |-> "turn"]

\* C26: a turn() that returns a value that is no action ends as a turn() that
\* raises: the step of the player's process (or of start() in sequential mode) is
\* the same step, its outcome is ("error", "turn"); a round that reads this outcome
\* aborts the game with empty statistics when continue_on_error is false, and when
\* it is true and the state is not over it adds one to the "error" tally and
\* resolves the turn with NOTHING for the player.
C26_InvalidIsCrash ==
    [][\A p \in PlayerSet :
          /\ wjob[p] = "turn" => (W_Publish(p, "invalid") <=> W_Publish(p, "raise"))
          /\ W_Publish(p, "invalid") =>
                output_queue'[p] = Append(output_queue[p], Crashed)
          /\ ( /\ mi <= N
               /\ Players[mi] = p
               /\ JobOf(InputFor(game_state, stats), p) = "turn" ) =>
                /\ M_Call("invalid") <=> M_Call("raise")
                /\ M_Call("invalid") =>
                      turn_actions'[p] = "error" /\ game_phases'[p] = "turn"
          /\ ( /\ MainStep("post")
               /\ turn_actions[p] = "error"
               /\ game_phases[p] = "turn" )
             => IF continue_on_error
                THEN /\ mpc' = "loop"
                     /\ ~game_over(game_state) =>
                           /\ stats'.players[p].actions["error"]
                                 = stats.players[p].actions["error"] + 1
                           /\ game_state' = determine_new_game_state(Players, game_state,
                                 [corrected_actions EXCEPT ![p] = NOTHING])
                ELSE /\ mpc' = "end"
                     /\ returned' = "empty"
                     /\ game_state' = game_state]_vars

\* the process of a player has put the outcome of a turn() that returned a value
\* that is no action, and start() reads it: the game is stopped
C26_InvalidValueStopsGame ==
    /\ ~continue_on_error
    /\ mpc = "end"
    /\ returned = "empty"
    /\ \E p \in PlayerSet :
          /\ last_call[p].method = "turn"
          /\ turn_actions[p] = "error"
          /\ game_phases[p] = "turn"

\* C27: in synchronous and sequential mode (simulation mode is sequential mode,
\* Game.py 217-221) nobody is ever a miss: the "miss" tally of every player is 0,
\* every player is ready in every round, and when a round comes to its end the
\* outcome of every running player has been read.
C27_NoMissOutsideStandard ==
    game_mode # STANDARD =>
        \A p \in PlayerSet :
            /\ stats.players[p].actions["miss"] = 0
            /\ p \in players_ready
            /\ waiter_queue[p] = 0
            /\ (mpc = "post" /\ players_running[p]) =>
                  /\ turn_actions[p] # "miss"
                  /\ game_phases[p] # "none"

\* synchronous mode: start() waits for a player whose turn() is still running
\* while the other player has answered
C27_WaitingForSlowPlayer ==
    /\ game_mode = SYNCHRONOUS
    /\ mpc = "sync"
    /\ game_state.turn >= 1
    /\ \E p, q \in PlayerSet :
          /\ mjoin = p
          /\ wpc[p] = "call"
          /\ wjob[p] = "turn"
          /\ wpc[q] = "end"

\* C28: sequential mode (and simulation mode, which is sequential mode) calls the
\* players of a round one after the other in the order of self.__players: while
\* the calls are made the players called are the first mi - 1 ones, and the call
\* of the next one starts when the outcome of the one before is there; a call that
\* does not return leaves the players after it without a call; at the end of the
\* round every player was called once, on the state of the round; a crash of a
\* call is an "error" outcome and start() goes on with the next player.
C28_SequentialCallsInOrder ==
    game_mode = SEQUENTIAL =>
        /\ \A p \in PlayerSet : wpc[p] = "unused"
        /\ mpc = "call" =>
              /\ round_calls = SubSeq(Players, 1, mi - 1)
              /\ returned = "none"
              /\ \A i \in 1..N : i < mi <=> game_phases[Players[i]] # "none"
        /\ mpc = "hung" =>
              /\ round_calls = SubSeq(Players, 1, mi)
              /\ \A i \in 1..N : i < mi <=> game_phases[Players[i]] # "none"
        /\ mpc = "post" =>
              /\ round_calls = Players
              /\ \A p \in PlayerSet :
                    /\ game_phases[p] # "none"
                    /\ turn_actions[p] # "miss"
                    /\ ~is_in_mud(game_state, p) => last_call[p].turn = game_state.turn

\* sequential mode: the turn() of the first player has crashed and the second
\* player of the round is about to be called
C28_SecondCalledAfterCrash ==
    /\ game_mode = SEQUENTIAL
    /\ mpc = "call"
    /\ mi = 2
    /\ round_calls = <<"a">>
    /\ turn_actions["a"] = "error"
    /\ game_phases["a"] = "turn"
    /\ game_phases["b"] = "none"

\* the turns resolved so far by start()
ResolvedTurns == IF game_state.turn = NoTurn THEN 0 ELSE game_state.turn

\* C30: render is called once on the initial state and once after every resolved
\* turn, on the state the turn produced: after n resolved turns it was called
\* n + 1 times, the last state rendered is the state of the game (so nothing is
\* rendered in the rounds on a state that is over), and every state given to a
\* player, in a queue or in a call, was rendered before.
C30_RenderedOncePerTurn ==
    /\ render_calls = ResolvedTurns + 1
    /\ rendered = game_state
    /\ \A p \in PlayerSet :
          /\ \A i \in 1..Len(input_queue[p]) :
                input_queue[p][i].game_state.turn + 1 <= render_calls
          /\ last_call[p].method # "none" => last_call[p].turn + 1 <= render_calls

\* the game is over after the preprocessing round and one turn: three calls of
\* render, the last one on the state without cheese
C30_ThreeRendersTwoTurns ==
    /\ returned = "stats"
    /\ game_over(game_state)
    /\ game_state.turn = 2
    /\ render_calls = 3
    /\ rendered.cheese = <<>>

\* the content of the object that game_state of start() refers to
Canonical == objects[game_state_ref]

\* C29: the state of the game changes only when game_state is set to the output of
\* the resolver; each player works on an object of its own (in every game mode),
\* so that what it does to it changes neither the state of the game nor the
\* object of another player; the resolver writes the next state into a new object
\* and leaves the state it was given as it was.
C29_StateOnlyReplaced ==
    [][/\ Canonical' # Canonical =>
             /\ cstep'.kind = "replace"
             /\ Canonical' = objects[new_game_state_ref]
       /\ cstep'.kind = "call" =>
             /\ player_game_state_ref'[cstep'.player]
                   \notin {game_state_ref}
                             \cup {player_game_state_ref[q] : q \in PlayerSet \ {cstep'.player}}
             /\ \A q \in PlayerSet \ {cstep'.player} :
                   player_game_state_ref[q] # NoRef =>
                      objects'[player_game_state_ref[q]] = objects[player_game_state_ref[q]]
       /\ cstep'.kind = "resolve" =>
             /\ new_game_state_ref' # game_state_ref
             /\ Canonical' = Canonical
             /\ objects'[new_game_state_ref']
                   = determine_new_game_state(Players, Canonical, cstep'.actions)]_vars

\* sequential mode, after a first turn: both players have changed the state they
\* were given, each in its way, and the state of the game has its cheese and its
\* locations
C29_BothScribbled ==
    /\ game_mode = SEQUENTIAL
    /\ cpc = "resolve"
    /\ Canonical.turn >= 1
    /\ Canonical.cheese # <<>>
    /\ objects[player_game_state_ref["a"]].cheese = <<>>
    /\ objects[player_game_state_ref["b"]].player_locations["b"] = 4
    /\ objects[player_game_state_ref["b"]].cheese = Canonical.cheese
    /\ Canonical.player_locations["b"] # 4

\* start() has returned and the process of the player waits for something that
\* only start() gives: the turn_start_synchronizer, the turn_end_synchronizer, or
\* an input
BlockedForever(p) ==
    /\ mpc = "done"
    /\ \/ wpc[p] \in {"start", "end"}
       \/ wpc[p] = "recv" /\ input_queue[p] = <<>>

C32_TurnCountsResolutions ==
    /\ game_state.turn = 0
    /\ [][ /\ game_state'.turn >= 0
           /\ game_state'.turn # game_state.turn =>
                 /\ MainStep("post")
                 /\ game_state'.turn = game_state.turn + 1
                 /\ game_state' = determine_new_game_state(Players, game_state,
                                                           corrected_actions) ]_vars

\* the places (team, rank) where name is listed in the teams
PlacesOf(name) ==
    {<<i, j>> \in (1..Len(reg_teams)) \X (1..Cardinality(RegNames)) :
        j <= Len(reg_teams[i][2]) /\ reg_teams[i][2][j] = name}

\* C33: the teams partition the players: every added player is listed in exactly
\* one team, exactly once, the teams list nobody else, no team is empty or named
\* twice, also in the state that reset() leaves; and the score of a team is the sum
\* of the scores of its members
C33_TeamsPartitionPlayers ==
    /\ \A name \in SeqToSet(reg_players) : Cardinality(PlacesOf(name)) = 1
    /\ \A i \in 1..Len(reg_teams) :
          /\ reg_teams[i][2] # <<>>
          /\ SeqToSet(reg_teams[i][2]) \subseteq SeqToSet(reg_players)
          /\ \A k \in 1..Len(reg_teams) : reg_teams[k][1] = reg_teams[i][1] => k = i
          /\ get_score_per_team_of(reg_teams, reg_scores)[reg_teams[i][1]]
                = SumOver(reg_scores, SeqToSet(reg_teams[i][2]))
    /\ DOMAIN reg_scores = SeqToSet(reg_players)
    /\ Cardinality(SeqToSet(reg_players)) = Len(reg_players)

\* reset() has just added again three players of two teams, two in the same team
C33_ResetKeptTwoTeams ==
    /\ reg_last = "reset_keep"
    /\ Len(reg_players) = 3
    /\ Len(reg_teams) = 2
    /\ \E i \in 1..2 : Len(reg_teams[i][2]) = 2

\* the configuration of simulation mode
SimulationGame == [preprocessing_time |-> 0, turn_time |-> 0,
                   render_mode |-> NO_RENDERING, game_mode |-> SEQUENTIAL]

\* a render mode or a time is supplied to Game.__init__
Supplied(args) ==
    \/ args.render_mode # None
    \/ args.preprocessing_time # NoTime
    \/ args.turn_time # NoTime

\* C34 (as claimed): creating a game with game_mode = SIMULATION always yields a
\* game with preprocessing_time = 0, turn_time = 0, no rendering and SEQUENTIAL
\* mode, whatever render mode and times are supplied: they are overridden, not
\* rejected
C34_SimulationOverridesSupplied ==
    init_args.game_mode = SIMULATION =>
        /\ init_game.outcome = "game"
        /\ init_game.game = SimulationGame

\* C34 (amended): creating a game with game_mode = SIMULATION and no render mode
\* and no time supplied yields a game with preprocessing_time = 0, turn_time = 0,
\* no rendering and SEQUENTIAL mode, in place of the default values; if a render
\* mode or a time is supplied the call fails an assertion and no game is built; and
\* no game that is built is left in SIMULATION mode
C34_SimulationEnforcedOrRejected ==
    /\ init_args.game_mode = SIMULATION =>
          IF Supplied(init_args)
          THEN init_game.outcome = "AssertionError"
          ELSE init_game.outcome = "game" /\ init_game.game = SimulationGame
    /\ init_game.outcome = "game" => init_game.game.game_mode \in GameModes

\* a game was created with game_mode = SIMULATION alone: the default times and
\* render mode, which differ from those of simulation mode, were replaced
C34_SimulationCreated ==
    /\ init_args.game_mode = SIMULATION
    /\ ~Supplied(init_args)
    /\ init_game.outcome = "game"
    /\ Stored(init_args).turn_time # init_game.game.turn_time
    /\ Stored(init_args).render_mode # init_game.game.render_mode

\* C35: cheese is conserved as score: in every state of a game the sum of the
\* scores of all players plus the number of cheese left equals the initial number
\* of cheese (a cheese that is removed adds exactly 1 to the sum of the scores,
\* split among the players on it)
C35_CheeseConservedAsScore ==
    TotalScore(game_state) + Len(game_state.cheese) * ScoreUnit
        = Len(InitialCheese) * ScoreUnit

\* the cheese is gone and one player has the whole of it
C35_CheeseTakenByOne ==
    /\ game_state.cheese = <<>>
    /\ \E p \in PlayerSet : game_state.score_per_player[p] = ScoreUnit

\* C36: in every state of a game - the one start() begins with, where the cheese
\* is on distinct existing cells on which no player starts, and every state that
\* a resolution produces - no cheese that is left lies on the cell where a player
\* is; and the cheese left is always on distinct existing cells
C36_NoCheeseUnderPlayer ==
    /\ \A p \in DOMAIN dc_state.player_locations :
          dc_state.player_locations[p] \notin SeqToSet(dc_state.cheese)
    /\ Cardinality(SeqToSet(dc_state.cheese)) = Len(dc_state.cheese)
    /\ \A k \in 1..Len(dc_state.cheese) : i_exists(dc_state.cheese[k])
    /\ dc_pc # "started" => dc_state.cheese = <<>>

\* one turn after a random distribution of two cheese, one cheese was taken and a
\* player stands next to the one that is left
C36_OneTakenOneLeft ==
    /\ dc_pc = "started"
    /\ dc_args.nb_cheese = 2
    /\ dc_state.turn = 1
    /\ Len(dc_state.cheese) = 1
    /\ \E p \in ResolvePlayerSet : dc_state.score_per_player[p] > 0
    /\ \E p \in ResolvePlayerSet :
          dc_state.cheese[1] \in get_neighbors(dc_state.player_locations[p])

\* the inputs that are on their way to the players' processes carry final
\* statistics only if the game is over, and then those of the game and its state
InputsAreCurrent ==
    \A p \in PlayerSet : \A k \in 1..Len(input_queue[p]) :
        input_queue[p][k].final_stats # NoStats =>
            /\ game_over(game_state)
            /\ input_queue[p][k].final_stats = stats
            /\ input_queue[p][k].game_state = game_state

TalliesChanged(p) ==
    {k \in TallyKeys : stats'.players[p].actions[k] # stats.players[p].actions[k]}

\* the sum of the nine tallies of player p
TallySum(p) ==
    LET actions == stats.players[p].actions IN
    actions[NOTHING] + actions[NORTH] + actions[SOUTH] + actions[EAST] + actions[WEST]
        + actions["mud"] + actions["error"] + actions["miss"] + actions["wall"]

\* C38: in every round that is resolved, for every player, exactly one of its nine
\* tallies grows, by one, unless the outcome taken for the player in that round is
\* one of preprocessing, and then none does; no other step changes a tally; hence
\* the sum of the tallies of a player never exceeds the number of resolved rounds
C38_OneTallyPerResolvedRound ==
    /\ \A p \in PlayerSet : TallySum(p) = 0
    /\ [][ /\ \A p \in PlayerSet :
                 /\ \A k \in TalliesChanged(p) :
                       stats'.players[p].actions[k] = stats.players[p].actions[k] + 1
                 /\ Cardinality(TalliesChanged(p)) =
                       IF Resolved /\ game_phases[p] # "preprocessing" THEN 1 ELSE 0
                 /\ TallySum(p)' <= ResolvedTurns'
           /\ Resolved <=> stats' # stats ]_vars

\* the game has returned its statistics after three resolved rounds: one player
\* has a tally for each of the two turns after its preprocessing, under two keys
C38_TwoKeysAfterThreeRounds ==
    /\ mpc = "done"
    /\ returned = "stats"
    /\ game_state.turn = 3
    /\ \E p \in PlayerSet :
          /\ TallySum(p) = 2
          /\ Cardinality({k \in TallyKeys : stats.players[p].actions[k] = 1}) = 2

\* the process of player p has an input of start() that makes it publish without
\* calling turn(), has published, or is on its way: it has the input to get, is in
\* the branch of the mud or in postprocessing, or waits in turn_end_synchronizer
AnswersUnasked(p) ==
    \/ /\ wpc[p] = "recv"
       /\ Len(input_queue[p]) = 1
       /\ JobOf(Head(input_queue[p]), p) \in {"mud", "postprocessing"}
    \/ wpc[p] = "call" /\ wjob[p] \in {"mud", "postprocessing"} /\ output_queue[p] = <<>>
    \/ wpc[p] = "end" /\ wjob[p] \in {"mud", "postprocessing"} /\ Len(output_queue[p]) = 1

\* start() has still to wait for player p in "Wait at least for those in mud"
StillAwaitedInMud(p) ==
    /\ mpc = "mud"
    /\ MudAwaited(p)
    /\ \E i \in mi..N : Players[i] = p

\* C39: in STANDARD mode start() cannot be stuck on the players it waits for
\* unconditionally: a player that is in mud and running was given an input in
\* this round, and while start() has still to wait for it its process has that
\* input to get, or is publishing "mud" (or is in postprocessing), or has
\* published and waits in its turn_end_synchronizer, with turn_timeout_lock
\* free, never in turn() and never hung; in the turn_start_synchronizer every
\* player has a party that is there or was told to come; under the lock start()
\* waits only for a process that has published; so in every blocking wait of
\* start() a step that releases it, or brings its release nearer, can be taken
C39_NoWaitWithoutAnswer ==
    game_mode = STANDARD =>
        /\ \A p \in PlayerSet :
              /\ mpc \in {"start", "mud"} /\ MudAwaited(p) /\ wpc[p] # "start" =>
                    p \in players_ready
              /\ mpc = "start" /\ MudAwaited(p) =>
                    /\ p \in players_ready
                    /\ wpc[p] = "start"
                    /\ Len(input_queue[p]) = 1
                    /\ JobOf(Head(input_queue[p]), p) \in {"mud", "postprocessing"}
              /\ StillAwaitedInMud(p) =>
                    /\ p \in players_ready
                    /\ AnswersUnasked(p)
                    /\ lock = "free"
              /\ mpc = "start" =>
                    \/ wpc[p] = "start"
                    \/ spc[p] = "start"
                    \/ spc[p] = "get" /\ waiter_queue[p] > 0
        /\ mjoin \in PlayerSet =>
              \/ wpc[mjoin] = "end" /\ output_queue[mjoin] # <<>>
              \/ mpc = "mud" /\ AnswersUnasked(mjoin)

\* start() waits in the turn_end_synchronizer of a player in mud whose process has
\* not got its input yet, while the other player is in a call of turn()
C39_WaitingForMudPlayer ==
    /\ game_mode = STANDARD
    /\ mpc = "mud"
    /\ mjoin \in PlayerSet
    /\ is_in_mud(game_state, mjoin)
    /\ wpc[mjoin] = "recv"
    /\ \E q \in PlayerSet : wpc[q] = "call" /\ wjob[q] = "turn"

\* the former vertices without the removed one, in the same order
WithoutRemoved == SelectSeq(gr_before.vertices, LAMBDA vertex : vertex # gr_removed)

\* C40: after remove_vertex(v) the vertices are the former vertices without v
\* in the same order, and for all remaining vertices a, b the edge a->b exists
\* with weight x iff it existed with weight x before the removal, whatever the
\* edges of v were (incoming, outgoing, symmetric or not).
C40_RemoveVertexLeavesTheRest ==
    gr_removed # "" =>
        /\ ~gr_raised
        /\ gr_graph.vertices = WithoutRemoved
        /\ \A a, b \in SeqToSet(WithoutRemoved) :
              /\ Graph_has_edge(gr_graph, a, b) <=> Graph_has_edge(gr_before, a, b)
              /\ Graph_has_edge(gr_before, a, b) =>
                    Graph_get_weight(gr_graph, a, b) = Graph_get_weight(gr_before, a, b)

=============================================================================
